---- MODULE Spec2Model ----
(***************************************************************************)
(* A model of the Vietnamese IME core engine (core/src/engine/mod.rs) and  *)
(* of the character composer (core/src/data/chars.rs), together with a     *)
(* host "virtual screen" that applies each Result the way the test helper  *)
(* type_word does (core/tests/common/mod.rs).                              *)
(*                                                                         *)
(* Conventions.  Option<T> is a sequence of length 0 (None) or 1 (Some).   *)
(* Buffer positions are 0-based as in the source; At(s, i) reads s[i].     *)
(* A keycode is a string: "a".."z", "0".."9", "SPACE", "DELETE", ...       *)
(* A character (codepoint) is a record [ch, up]: the lower-case glyph name *)
(* and whether it is the upper-case form.  Glyph names are ASCII spellings *)
(* of the precomposed letters, written the Telex way: "aa" a-circumflex,   *)
(* "aw" a-breve, "oo" o-circumflex, "ow" o-horn, "uw" u-horn, "dd"         *)
(* d-stroke, followed by the mark: s acute, f grave, r hook, x tilde,      *)
(* j dot-below ("aas" is a-circumflex-acute).  A glyph name of two or more *)
(* letters is one codepoint.                                               *)
(***************************************************************************)
EXTENDS Integers, Sequences, FiniteSets, TLC

None == <<>>
Some(x) == <<x>>
At(s, i) == s[i + 1]
Min2(a, b) == IF a <= b THEN a ELSE b

(***************************************************************************)
(* data::keys (Key table)                                                  *)
(***************************************************************************)
VowelKeys == {"a", "e", "i", "o", "u", "y"}
AlphaKeys ==
    {"a", "b", "c", "d", "e", "f", "g", "h", "i", "j", "k", "l", "m",
     "n", "o", "p", "q", "r", "s", "t", "u", "v", "w", "x", "y", "z"}
DigitKeys == {"0", "1", "2", "3", "4", "5", "6", "7", "8", "9"}
BreakKeys == {"SPACE", "TAB", "ENTER", "DOT", "COMMA"}
DELETE == "DELETE"

is_letter(k) == k \in AlphaKeys \cup DigitKeys
is_vowel(k) == k \in VowelKeys
is_consonant(k) == is_letter(k) /\ ~is_vowel(k)
is_break(k) == k \in BreakKeys

(***************************************************************************)
(* data::chars (Char composer)                                             *)
(***************************************************************************)
tone_NONE == 0
tone_CIRCUMFLEX == 1
tone_HORN == 2

mark_NONE == 0
mark_SAC == 1
mark_HUYEN == 2
mark_HOI == 3
mark_NGA == 4
mark_NANG == 5

VOWEL_TABLE ==
    << <<"a",  <<"as",  "af",  "ar",  "ax",  "aj">> >>,
       <<"aw", <<"aws", "awf", "awr", "awx", "awj">> >>,
       <<"aa", <<"aas", "aaf", "aar", "aax", "aaj">> >>,
       <<"e",  <<"es",  "ef",  "er",  "ex",  "ej">> >>,
       <<"ee", <<"ees", "eef", "eer", "eex", "eej">> >>,
       <<"i",  <<"is",  "if",  "ir",  "ix",  "ij">> >>,
       <<"o",  <<"os",  "of",  "or",  "ox",  "oj">> >>,
       <<"oo", <<"oos", "oof", "oor", "oox", "ooj">> >>,
       <<"ow", <<"ows", "owf", "owr", "owx", "owj">> >>,
       <<"u",  <<"us",  "uf",  "ur",  "ux",  "uj">> >>,
       <<"uw", <<"uws", "uwf", "uwr", "uwx", "uwj">> >>,
       <<"y",  <<"ys",  "yf",  "yr",  "yx",  "yj">> >> >>

get_base_char(key, t) ==
    CASE key = "a" -> Some(IF t = tone_CIRCUMFLEX THEN "aa"
                           ELSE IF t = tone_HORN THEN "aw" ELSE "a")
      [] key = "e" -> Some(IF t = tone_CIRCUMFLEX THEN "ee" ELSE "e")
      [] key = "i" -> Some("i")
      [] key = "o" -> Some(IF t = tone_CIRCUMFLEX THEN "oo"
                           ELSE IF t = tone_HORN THEN "ow" ELSE "o")
      [] key = "u" -> Some(IF t = tone_HORN THEN "uw" ELSE "u")
      [] key = "y" -> Some("y")
      [] OTHER -> None

apply_mark(base, m) ==
    IF m = mark_NONE \/ m > mark_NANG
    THEN base
    ELSE LET rows == {i \in 1..Len(VOWEL_TABLE) : VOWEL_TABLE[i][1] = base}
         IN  IF rows = {} THEN base
             ELSE LET r == CHOOSE i \in rows : \A j \in rows : i <= j
                  IN  VOWEL_TABLE[r][2][m]

to_upper(ch) == [ch |-> ch, up |-> TRUE]

\* to_char without the special case of the key D.
to_char_vowels_only(key, caps, t, m) ==
    LET base == get_base_char(key, t)
    IN  IF base = None THEN None
        ELSE LET marked == apply_mark(base[1], m)
             IN  Some(IF caps THEN to_upper(marked)
                      ELSE [ch |-> marked, up |-> FALSE])

to_char(key, caps, t, m) ==
    IF key = "d"
    THEN Some([ch |-> "d", up |-> caps])
    ELSE LET base == get_base_char(key, t)
         IN  IF base = None THEN None
             ELSE LET marked == apply_mark(base[1], m)
                  IN  Some(IF caps THEN to_upper(marked)
                           ELSE [ch |-> marked, up |-> FALSE])

get_d(caps) == [ch |-> "dd", up |-> caps]

(***************************************************************************)
(* engine::key_to_char                                                     *)
(***************************************************************************)
key_to_char(key, caps) ==
    IF key \in AlphaKeys THEN Some([ch |-> key, up |-> caps])
    ELSE IF key \in DigitKeys THEN Some([ch |-> key, up |-> FALSE])
    ELSE None

(***************************************************************************)
(* engine::buffer (Buffer, Char, MAX)                                      *)
(***************************************************************************)
MAX == 16

Char_new(key, caps) ==
    [key |-> key, caps |-> caps, tone |-> tone_NONE, mark |-> mark_NONE,
     stroke |-> FALSE]

buf_push(b, c) == IF Len(b) < MAX THEN Append(b, c) ELSE b
buf_pop(b) == IF Len(b) = 0 THEN b ELSE SubSeq(b, 1, Len(b) - 1)
buf_keys(b) == [i \in 1..Len(b) |-> b[i].key]
find_vowels(b) == {p \in 0..(Len(b) - 1) : is_vowel(At(b, p).key)}

(***************************************************************************)
(* engine::validation (Validator): is the base-letter sequence a plausible *)
(* Vietnamese syllable prefix?  The sequence is cut into the leading       *)
(* consonants, the vowel run, the trailing consonants; nothing may follow. *)
(* The initials qu- and gi- take their u / i into the onset.               *)
(***************************************************************************)
ConsonantKeys == AlphaKeys \ VowelKeys

\* The length of the longest prefix of s whose keys are all in S.
LeadLen(s, S) ==
    CHOOSE n \in 0..Len(s) :
        /\ \A i \in 1..n : s[i] \in S
        /\ (n = Len(s) \/ s[n + 1] \notin S)

ValidInitials ==
    {<<"b">>, <<"c">>, <<"d">>, <<"g">>, <<"h">>, <<"k">>, <<"l">>, <<"m">>,
     <<"n">>, <<"p">>, <<"r">>, <<"s">>, <<"t">>, <<"v">>, <<"x">>,
     <<"c", "h">>, <<"g", "h">>, <<"k", "h">>, <<"n", "g">>,
     <<"n", "g", "h">>, <<"n", "h">>, <<"p", "h">>, <<"t", "h">>,
     <<"t", "r">>}

ValidNuclei ==
    {<<"a">>, <<"e">>, <<"i">>, <<"o">>, <<"u">>, <<"y">>,
     <<"a", "i">>, <<"a", "o">>, <<"a", "u">>, <<"a", "y">>,
     <<"e", "o">>, <<"e", "u">>, <<"i", "a">>, <<"i", "e">>,
     <<"o", "a">>, <<"o", "e">>, <<"o", "i">>, <<"o", "o">>,
     <<"u", "a">>, <<"u", "e">>, <<"u", "i">>, <<"u", "o">>,
     <<"u", "u">>, <<"u", "y">>, <<"y", "e">>,
     <<"i", "e", "u">>, <<"o", "a", "i">>, <<"o", "a", "o">>,
     <<"o", "a", "y">>, <<"o", "e", "o">>, <<"u", "a", "y">>,
     <<"u", "o", "i">>, <<"u", "o", "u">>, <<"u", "y", "a">>,
     <<"u", "y", "e">>, <<"u", "y", "u">>, <<"y", "e", "u">>}

ValidFinals ==
    {<<"c">>, <<"c", "h">>, <<"m">>, <<"n">>, <<"n", "g">>, <<"n", "h">>,
     <<"p">>, <<"t">>}

\* Attested onset / first-vowel shapes: k, gh, ngh only before e, i, y;
\* c, g, ng never before e (c, ng: nor i, y).
rule_spelling(onset, nucleus) ==
    LET v1 == nucleus[1]
    IN  /\ (onset = <<"k">> => v1 \in {"e", "i", "y"})
        /\ (onset = <<"c">> => v1 \notin {"e", "i", "y"})
        /\ (onset \in {<<"g", "h">>, <<"n", "g", "h">>} => v1 \in {"e", "i"})
        /\ (onset = <<"g">> => v1 # "e")
        /\ (onset = <<"n", "g">> => v1 \notin {"e", "i"})

is_valid(ks) ==
    LET n == Len(ks)
        c == LeadLen(ks, ConsonantKeys)
        rest1 == SubSeq(ks, c + 1, n)
        v == LeadLen(rest1, VowelKeys)
        rest2 == SubSeq(rest1, v + 1, Len(rest1))
        f == LeadLen(rest2, ConsonantKeys)
        C == SubSeq(ks, 1, c)
        V == SubSeq(rest1, 1, v)
        F == SubSeq(rest2, 1, f)
        isQu == C = <<"q">> /\ v >= 1 /\ V[1] = "u"
        isGi == C = <<"g">> /\ v >= 2 /\ V[1] = "i"
        nucleus == IF isQu \/ isGi THEN Tail(V) ELSE V
    IN  /\ f = Len(rest2)
        /\ IF v = 0
           THEN C \in ValidInitials \cup {<<"q">>, <<>>}
           ELSE /\ (C \in ValidInitials \cup {<<>>} \/ isQu)
                /\ IF nucleus = <<>>
                   THEN F = <<>>
                   ELSE /\ nucleus \in ValidNuclei
                        /\ ~(isGi /\ nucleus = <<"i">>)
                        /\ F \in ValidFinals \cup {<<>>}
                        /\ (isQu \/ isGi \/ rule_spelling(C, nucleus))

(***************************************************************************)
(* data::vowel (Phonology): the buffer position of the vowel that takes    *)
(* the mark.  A Vowel is [key, modifier, pos].                             *)
(***************************************************************************)
Vowel_new(key, modifier, pos) == [key |-> key, modifier |-> modifier, pos |-> pos]

OpenDiphthongs == {<<"o", "a">>, <<"o", "e">>, <<"u", "y">>}

find_tone_position(vowels, has_final_consonant, modern, has_qu_initial) ==
    LET vs == IF has_qu_initial /\ Len(vowels) >= 2 /\ vowels[1].key = "u"
              THEN Tail(vowels) ELSE vowels
        n == Len(vs)
        modified == {i \in 1..n : vs[i].modifier # "None"}
    IN  IF n = 0 THEN 0
        ELSE IF modified # {}
        THEN vs[CHOOSE i \in modified : \A j \in modified : j <= i].pos
        ELSE IF n = 1 THEN vs[1].pos
        ELSE IF n = 3 THEN vs[2].pos
        ELSE IF n = 2
        THEN IF has_final_consonant THEN vs[2].pos
             ELSE IF (<<vs[1].key, vs[2].key>> \in OpenDiphthongs) = modern
             THEN vs[2].pos
             ELSE vs[1].pos
        ELSE vs[n].pos

(***************************************************************************)
(* input (Input method table): 0 = Telex, 1 = VNI.                         *)
(***************************************************************************)
TELEX == 0
VNI == 1

m_stroke(method, key) ==
    \/ method = TELEX /\ key = "d"
    \/ method = VNI /\ key = "9"

m_tone(method, key) ==
    IF method = TELEX
    THEN IF key \in {"a", "e", "o"} THEN Some("Circumflex")
         ELSE IF key = "w" THEN Some("Horn") ELSE None
    ELSE IF key = "6" THEN Some("Circumflex")
         ELSE IF key = "7" THEN Some("Horn")
         ELSE IF key = "8" THEN Some("Breve") ELSE None

m_tone_targets(method, key) ==
    IF method = TELEX
    THEN IF key \in {"a", "e", "o"} THEN {key}
         ELSE IF key = "w" THEN {"a", "o", "u"} ELSE {}
    ELSE IF key = "6" THEN {"a", "e", "o"}
         ELSE IF key = "7" THEN {"o", "u"}
         ELSE IF key = "8" THEN {"a"} ELSE {}

ToneType_value(t) == IF t = "Circumflex" THEN tone_CIRCUMFLEX ELSE tone_HORN

m_mark(method, key) ==
    IF method = TELEX
    THEN CASE key = "s" -> Some(mark_SAC)
           [] key = "f" -> Some(mark_HUYEN)
           [] key = "r" -> Some(mark_HOI)
           [] key = "x" -> Some(mark_NGA)
           [] key = "j" -> Some(mark_NANG)
           [] OTHER -> None
    ELSE CASE key = "1" -> Some(mark_SAC)
           [] key = "2" -> Some(mark_HUYEN)
           [] key = "3" -> Some(mark_HOI)
           [] key = "4" -> Some(mark_NGA)
           [] key = "5" -> Some(mark_NANG)
           [] OTHER -> None

m_remove(method, key) ==
    \/ method = TELEX /\ key = "z"
    \/ method = VNI /\ key = "0"

(***************************************************************************)
(* engine::shortcut (ShortcutTable): rules [trigger, output, method] over  *)
(* characters; a rule matches when its trigger is the whole word and its   *)
(* method is All or the method asked for.                                  *)
(***************************************************************************)
\* The scope of a rule that holds for every method.
InputMethod_All == 2

ShortcutTable_with_defaults == {}

to_string_preserve_case(b) ==
    [i \in 1..Len(b) |-> [ch |-> b[i].key, up |-> b[i].caps /\ b[i].key \in AlphaKeys]]

try_match_for_method(table, buffer_str, method) ==
    LET hits == {rule \in table :
                    rule.trigger = buffer_str /\ rule.method \in {InputMethod_All, method}}
    IN  IF hits = {} THEN None
        ELSE LET rule == CHOOSE x \in hits : TRUE
             IN  Some([backspace_count |-> Len(rule.trigger), output |-> rule.output])

(***************************************************************************)
(* engine: Action, Result, Transform                                       *)
(***************************************************************************)
Action_None == 0
Action_Send == 1
Action_Restore == 2

\* The codepoint 0 of an unused slot of Result.chars ([u32; MAX]).
NUL == [ch |-> "NUL", up |-> FALSE]

Result_none ==
    [action |-> Action_None, backspace |-> 0, count |-> 0,
     chars |-> [i \in 1..MAX |-> NUL]]

\* Result::send copying every character given, without the cut at MAX.
Result_send_uncut(backspace, chars) ==
    [action |-> Action_Send, backspace |-> backspace, count |-> Len(chars),
     chars |-> chars \o [i \in 1..(MAX - Len(chars)) |-> NUL]]

Result_send(backspace, chars) ==
    [action |-> Action_Send, backspace |-> backspace,
     count |-> Min2(Len(chars), MAX),
     chars |-> [i \in 1..MAX |-> IF i <= Len(chars) THEN chars[i] ELSE NUL]]

Transform_Mark(key, val) == [kind |-> "Mark", key |-> key, val |-> val]
Transform_Tone(key, val) == [kind |-> "Tone", key |-> key, val |-> val]
Transform_Stroke(key) == [kind |-> "Stroke", key |-> key, val |-> 0]
Transform_WAsVowel == [kind |-> "WAsVowel", key |-> "w", val |-> 0]

Engine_new ==
    [buf |-> <<>>, method |-> TELEX, enabled |-> TRUE, last_transform |-> None,
     shortcuts |-> ShortcutTable_with_defaults]

\* What a step of the pipeline hands back: the engine after it, the
\* Option<Result> it returns (None = declined), the branch that returned,
\* and whether an index or subtraction went out of range (a panic).
Out(e, r, path, panic) == [e |-> e, r |-> r, path |-> path, panic |-> panic]
Declined(e) == Out(e, None, "declined", FALSE)

RECURSIVE Flatten(_)
Flatten(opts) ==
    IF opts = <<>> THEN <<>> ELSE Head(opts) \o Flatten(Tail(opts))

\* The character rebuild_from emits for one record.
compose_char(c) ==
    IF c.key = "d" /\ c.stroke THEN Some(get_d(c.caps))
    ELSE IF to_char(c.key, c.caps, c.tone, c.mark) # None
    THEN to_char(c.key, c.caps, c.tone, c.mark)
    ELSE key_to_char(c.key, c.caps)

rebuild_from(b, from) ==
    IF from > Len(b)
    THEN [r |-> Result_none, panic |-> TRUE]
    ELSE LET output == Flatten([i \in 1..(Len(b) - from) |-> compose_char(At(b, from + i - 1))])
             backspace == Len(b) - from
         IN  [r |-> IF output = <<>> THEN Result_none ELSE Result_send(backspace, output),
              panic |-> FALSE]

collect_vowels(b) ==
    LET ps == find_vowels(b)
        RECURSIVE Build(_)
        Build(S) ==
            IF S = {} THEN <<>>
            ELSE LET p == CHOOSE x \in S : \A y \in S : x <= y
                     c == At(b, p)
                     modifier == IF c.tone = tone_CIRCUMFLEX THEN "Circumflex"
                                 ELSE IF c.tone = tone_HORN THEN "Horn" ELSE "None"
                 IN  <<Vowel_new(c.key, modifier, p)>> \o Build(S \ {p})
    IN  Build(ps)

has_final_consonant(b, after_pos) ==
    \E i \in (after_pos + 1)..(Len(b) - 1) : is_consonant(At(b, i).key)

has_qu_initial(b) ==
    LET us == {i \in 1..(Len(b) - 1) : At(b, i).key = "u"}
    IN  IF us = {} THEN FALSE
        ELSE At(b, (CHOOSE i \in us : \A j \in us : i <= j) - 1).key = "q"

has_uo_compound(b) ==
    \E i \in 0..(Len(b) - 2) :
        \/ At(b, i).key = "u" /\ At(b, i + 1).key = "o"
        \/ At(b, i).key = "o" /\ At(b, i + 1).key = "u"

(***************************************************************************)
(* engine: the transform steps.  Each takes the engine record e and gives  *)
(* an Out.                                                                 *)
(***************************************************************************)
set_tone(b, pos, t) == [b EXCEPT ![pos + 1].tone = t]
\* set_mark writing the record anew, without its caps flag.
set_mark_uncaps(b, pos, m) == [b EXCEPT ![pos + 1].mark = m, ![pos + 1].caps = FALSE]

set_mark(b, pos, m) == [b EXCEPT ![pos + 1].mark = m]
\* set_stroke writing the bit on every record from pos on.
set_stroke_from(b, pos, v) ==
    [i \in 1..Len(b) |-> IF i > pos THEN [b[i] EXCEPT !.stroke = v] ELSE b[i]]

set_stroke(b, pos, v) == [b EXCEPT ![pos + 1].stroke = v]
MaxOf(S) == CHOOSE x \in S : \A y \in S : y <= x
MinOf(S) == CHOOSE x \in S : \A y \in S : x <= y

\* try_w_as_vowel taking the position of the new record before pushing it.
try_w_as_vowel_pos_first(e, caps) ==
    IF e.last_transform = Some(Transform_WAsVowel)
    THEN LET w == [ch |-> "w", up |-> caps]
         IN  Out([e EXCEPT !.last_transform = None],
                 Some(Result_send(1, <<w, w>>)), "w_revert", FALSE)
    ELSE IF Len(e.buf) = 0
    THEN Out(e, Some(Result_none), "panic", TRUE)
    ELSE LET b1 == buf_push(e.buf, Char_new("u", caps))
             b2 == set_tone(b1, Len(b1) - 1, tone_HORN)
         IN  IF is_valid(buf_keys(b2))
             THEN LET rb == rebuild_from(b2, Len(b2) - 1)
                  IN  Out([e EXCEPT !.buf = b2,
                                    !.last_transform = Some(Transform_WAsVowel)],
                          Some(rb.r), "w_apply", rb.panic)
             ELSE Out([e EXCEPT !.buf = buf_pop(b2)], None, "declined", FALSE)

try_w_as_vowel(e, caps) ==
    IF e.last_transform = Some(Transform_WAsVowel)
    THEN LET w == [ch |-> "w", up |-> caps]
         IN  Out([e EXCEPT !.last_transform = None],
                 Some(Result_send(1, <<w, w>>)), "w_revert", FALSE)
    ELSE LET b1 == buf_push(e.buf, Char_new("u", caps))
         IN  IF Len(b1) = 0
             THEN Out([e EXCEPT !.buf = b1], Some(Result_none), "panic", TRUE)
             ELSE LET b2 == set_tone(b1, Len(b1) - 1, tone_HORN)
                  IN  IF is_valid(buf_keys(b2))
                      THEN LET rb == rebuild_from(b2, Len(b2) - 1)
                           IN  Out([e EXCEPT !.buf = b2,
                                             !.last_transform = Some(Transform_WAsVowel)],
                                   Some(rb.r), "w_apply", rb.panic)
                      ELSE Out([e EXCEPT !.buf = buf_pop(b2)], None, "declined", FALSE)

revert_stroke(e, key, pos) ==
    LET e1 == [e EXCEPT !.last_transform = None]
    IN  IF pos < Len(e1.buf) /\ At(e1.buf, pos).key = "d" /\ ~At(e1.buf, pos).stroke
        THEN LET b1 == buf_push(e1.buf, Char_new(key, At(e1.buf, pos).caps))
                 rb == rebuild_from(b1, pos)
             IN  Out([e1 EXCEPT !.buf = b1], Some(rb.r), "stroke_revert", rb.panic)
        ELSE Out(e1, Some(Result_none), "stroke_revert", FALSE)

\* try_stroke without the validation of a buffer that holds a vowel.
try_stroke_unvalidated(e, key) ==
    LET ds == {i \in 0..(Len(e.buf) - 1) : At(e.buf, i).key = "d" /\ ~At(e.buf, i).stroke}
    IN  IF ds = {} THEN Declined(e)
        ELSE LET pos == MinOf(ds)
                 lt == e.last_transform
             IN  IF lt # None /\ lt[1].kind = "Stroke" /\ lt[1].key = key
                 THEN revert_stroke(e, key, pos)
                 ELSE LET b1 == set_stroke(e.buf, pos, TRUE)
                          rb == rebuild_from(b1, pos)
                      IN  Out([e EXCEPT !.buf = b1,
                                        !.last_transform = Some(Transform_Stroke(key))],
                              Some(rb.r), "stroke_apply", rb.panic)

\* try_stroke validating the buffer whether or not it holds a vowel.
try_stroke_always_validates(e, key) ==
    LET ds == {i \in 0..(Len(e.buf) - 1) : At(e.buf, i).key = "d" /\ ~At(e.buf, i).stroke}
    IN  IF ds = {} THEN Declined(e)
        ELSE LET pos == MinOf(ds)
                 lt == e.last_transform
             IN  IF lt # None /\ lt[1].kind = "Stroke" /\ lt[1].key = key
                 THEN revert_stroke(e, key, pos)
                 ELSE IF ~is_valid(buf_keys(e.buf))
                 THEN Declined(e)
                 ELSE LET b1 == set_stroke(e.buf, pos, TRUE)
                          rb == rebuild_from(b1, pos)
                      IN  Out([e EXCEPT !.buf = b1,
                                        !.last_transform = Some(Transform_Stroke(key))],
                              Some(rb.r), "stroke_apply", rb.panic)

\* try_stroke looking for the un-stroked D in the last record only.
try_stroke_last_only(e, key) ==
    LET ds == {i \in 0..(Len(e.buf) - 1) :
                  i = Len(e.buf) - 1 /\ At(e.buf, i).key = "d" /\ ~At(e.buf, i).stroke}
    IN  IF ds = {} THEN Declined(e)
        ELSE LET pos == MinOf(ds)
                 lt == e.last_transform
                 buffer_keys == buf_keys(e.buf)
                 has_vowel == \E i \in 1..Len(buffer_keys) : is_vowel(buffer_keys[i])
             IN  IF lt # None /\ lt[1].kind = "Stroke" /\ lt[1].key = key
                 THEN revert_stroke(e, key, pos)
                 ELSE IF has_vowel /\ ~is_valid(buffer_keys)
                 THEN Declined(e)
                 ELSE LET b1 == set_stroke(e.buf, pos, TRUE)
                          rb == rebuild_from(b1, pos)
                      IN  Out([e EXCEPT !.buf = b1,
                                        !.last_transform = Some(Transform_Stroke(key))],
                              Some(rb.r), "stroke_apply", rb.panic)

try_stroke(e, key) ==
    LET ds == {i \in 0..(Len(e.buf) - 1) : At(e.buf, i).key = "d" /\ ~At(e.buf, i).stroke}
    IN  IF ds = {} THEN Declined(e)
        ELSE LET pos == MinOf(ds)
                 lt == e.last_transform
                 buffer_keys == buf_keys(e.buf)
                 has_vowel == \E i \in 1..Len(buffer_keys) : is_vowel(buffer_keys[i])
             IN  IF lt # None /\ lt[1].kind = "Stroke" /\ lt[1].key = key
                 THEN revert_stroke(e, key, pos)
                 ELSE IF has_vowel /\ ~is_valid(buffer_keys)
                 THEN Declined(e)
                 ELSE LET b1 == set_stroke(e.buf, pos, TRUE)
                          rb == rebuild_from(b1, pos)
                      IN  Out([e EXCEPT !.buf = b1,
                                        !.last_transform = Some(Transform_Stroke(key))],
                              Some(rb.r), "stroke_apply", rb.panic)

\* [buf, moved_from]: the buffer after the mark was moved to the vowel
\* phonology selects, and Some(old position) when it moved.
reposition_mark_if_needed(b) ==
    LET marked == {i \in 0..(Len(b) - 1) : At(b, i).mark > 0}
    IN  IF marked = {} THEN [buf |-> b, moved_from |-> None]
        ELSE LET old_pos == MinOf(marked)
                 mark_value == At(b, old_pos).mark
                 vowels == collect_vowels(b)
             IN  IF vowels = <<>> THEN [buf |-> b, moved_from |-> None]
                 ELSE LET last_vowel_pos == vowels[Len(vowels)].pos
                          has_final == has_final_consonant(b, last_vowel_pos)
                          has_qu == has_qu_initial(b)
                          new_pos == find_tone_position(vowels, has_final, TRUE, has_qu)
                      IN  IF new_pos # old_pos
                          THEN LET b1 == set_mark(b, old_pos, 0)
                                   b2 == IF new_pos < Len(b1)
                                         THEN set_mark(b1, new_pos, mark_value) ELSE b1
                               IN  [buf |-> b2, moved_from |-> Some(old_pos)]
                          ELSE [buf |-> b, moved_from |-> None]

revert_and_rebuild(e, pos, key, caps) ==
    IF pos > Len(e.buf)
    THEN Out(e, Some(Result_none), "panic", TRUE)
    ELSE LET backspace == Len(e.buf) - pos
             b1 == buf_push(e.buf, Char_new(key, caps))
             output == Flatten([i \in 1..(Len(b1) - pos) |->
                                   key_to_char(At(b1, pos + i - 1).key,
                                               At(b1, pos + i - 1).caps)])
         IN  Out([e EXCEPT !.buf = b1], Some(Result_send(backspace, output)),
                 "revert", FALSE)

revert_tone(e, key, caps) ==
    LET e1 == [e EXCEPT !.last_transform = None]
        toned == {p \in find_vowels(e1.buf) : At(e1.buf, p).tone > tone_NONE}
    IN  IF toned = {}
        THEN Out(e1, Some(Result_none), "tone_revert", FALSE)
        ELSE LET pos == MaxOf(toned)
                 o == revert_and_rebuild([e1 EXCEPT !.buf = set_tone(e1.buf, pos, tone_NONE)],
                                         pos, key, caps)
             IN  Out(o.e, o.r, "tone_revert", o.panic)

revert_mark(e, key, caps) ==
    LET e1 == [e EXCEPT !.last_transform = None]
        marked == {p \in find_vowels(e1.buf) : At(e1.buf, p).mark > mark_NONE}
    IN  IF marked = {}
        THEN Out(e1, Some(Result_none), "mark_revert", FALSE)
        ELSE LET pos == MaxOf(marked)
                 o == revert_and_rebuild([e1 EXCEPT !.buf = set_mark(e1.buf, pos, mark_NONE)],
                                         pos, key, caps)
             IN  Out(o.e, o.r, "mark_revert", o.panic)

\* try_tone without the u-o compound case: a Horn key reaches the
\* rightmost eligible vowel only.
try_tone_single(e, key, caps, tone_type, targets) ==
    IF e.buf = <<>> THEN Declined(e)
    ELSE LET lt == e.last_transform
         IN  IF lt # None /\ lt[1].kind = "Tone" /\ lt[1].key = key
             THEN revert_tone(e, key, caps)
             ELSE IF ~is_valid(buf_keys(e.buf)) THEN Declined(e)
             ELSE LET b == e.buf
                      tone_val == ToneType_value(tone_type)
                      eligible == {i \in 0..(Len(b) - 1) :
                                      At(b, i).key \in targets /\ At(b, i).tone = tone_NONE}
                  IN  IF eligible = {} THEN Declined(e)
                      ELSE LET b1 == set_tone(b, MaxOf(eligible), tone_val)
                               rp == reposition_mark_if_needed(b1)
                               rebuild_pos == IF rp.moved_from # None
                                              THEN Min2(MaxOf(eligible), rp.moved_from[1])
                                              ELSE MaxOf(eligible)
                               rb == rebuild_from(rp.buf, rebuild_pos)
                           IN  Out([e EXCEPT !.buf = rp.buf,
                                             !.last_transform = Some(Transform_Tone(key, tone_val))],
                                   Some(rb.r), "tone_apply", rb.panic)

\* try_tone taking the rightmost vowel of the target set whether or not it
\* already carries a tone.
try_tone_overwrites(e, key, caps, tone_type, targets) ==
    IF e.buf = <<>> THEN Declined(e)
    ELSE LET lt == e.last_transform
         IN  IF lt # None /\ lt[1].kind = "Tone" /\ lt[1].key = key
             THEN revert_tone(e, key, caps)
             ELSE IF ~is_valid(buf_keys(e.buf)) THEN Declined(e)
             ELSE LET b == e.buf
                      tone_val == ToneType_value(tone_type)
                      compound ==
                          IF tone_type = "Horn" /\ has_uo_compound(b)
                          THEN {i \in 0..(Len(b) - 1) :
                                    At(b, i).key \in {"u", "o"} /\ At(b, i).tone = tone_NONE}
                          ELSE {}
                      eligible == {i \in 0..(Len(b) - 1) : At(b, i).key \in targets}
                      target_positions ==
                          IF compound # {} THEN compound
                          ELSE IF eligible # {} THEN {MaxOf(eligible)} ELSE {}
                  IN  IF target_positions = {} THEN Declined(e)
                      ELSE LET b1 == [i \in 1..Len(b) |->
                                         IF (i - 1) \in target_positions
                                         THEN [b[i] EXCEPT !.tone = tone_val] ELSE b[i]]
                               earliest_pos == MinOf(target_positions)
                               rp == reposition_mark_if_needed(b1)
                               rebuild_pos == IF rp.moved_from # None
                                              THEN Min2(earliest_pos, rp.moved_from[1])
                                              ELSE earliest_pos
                               rb == rebuild_from(rp.buf, rebuild_pos)
                           IN  Out([e EXCEPT !.buf = rp.buf,
                                             !.last_transform = Some(Transform_Tone(key, tone_val))],
                                   Some(rb.r), "tone_apply", rb.panic)

try_tone(e, key, caps, tone_type, targets) ==
    IF e.buf = <<>> THEN Declined(e)
    ELSE LET lt == e.last_transform
         IN  IF lt # None /\ lt[1].kind = "Tone" /\ lt[1].key = key
             THEN revert_tone(e, key, caps)
             ELSE IF ~is_valid(buf_keys(e.buf)) THEN Declined(e)
             ELSE LET b == e.buf
                      tone_val == ToneType_value(tone_type)
                      compound ==
                          IF tone_type = "Horn" /\ has_uo_compound(b)
                          THEN {i \in 0..(Len(b) - 1) :
                                    At(b, i).key \in {"u", "o"} /\ At(b, i).tone = tone_NONE}
                          ELSE {}
                      eligible == {i \in 0..(Len(b) - 1) :
                                      At(b, i).key \in targets /\ At(b, i).tone = tone_NONE}
                      target_positions ==
                          IF compound # {} THEN compound
                          ELSE IF eligible # {} THEN {MaxOf(eligible)} ELSE {}
                  IN  IF target_positions = {} THEN Declined(e)
                      ELSE LET b1 == [i \in 1..Len(b) |->
                                         IF (i - 1) \in target_positions
                                         THEN [b[i] EXCEPT !.tone = tone_val] ELSE b[i]]
                               earliest_pos == MinOf(target_positions)
                               rp == reposition_mark_if_needed(b1)
                               rebuild_pos == IF rp.moved_from # None
                                              THEN Min2(earliest_pos, rp.moved_from[1])
                                              ELSE earliest_pos
                               rb == rebuild_from(rp.buf, rebuild_pos)
                           IN  Out([e EXCEPT !.buf = rp.buf,
                                             !.last_transform = Some(Transform_Tone(key, tone_val))],
                                   Some(rb.r), "tone_apply", rb.panic)

\* try_mark putting the mark on the last vowel of the buffer, whatever
\* phonology says.
try_mark_last_vowel(e, key, caps, mark_val) ==
    IF e.buf = <<>> THEN Declined(e)
    ELSE LET lt == e.last_transform
         IN  IF lt # None /\ lt[1].kind = "Mark" /\ lt[1].key = key
             THEN revert_mark(e, key, caps)
             ELSE IF ~is_valid(buf_keys(e.buf)) THEN Declined(e)
             ELSE LET vowels == collect_vowels(e.buf)
                  IN  IF vowels = <<>> THEN Declined(e)
                      ELSE LET pos == vowels[Len(vowels)].pos
                               b1 == set_mark(e.buf, pos, mark_val)
                               rb == rebuild_from(b1, pos)
                           IN  Out([e EXCEPT !.buf = b1,
                                             !.last_transform =
                                                 Some(Transform_Mark(key, mark_val))],
                                   Some(rb.r), "mark_apply", rb.panic)

try_mark(e, key, caps, mark_val) ==
    IF e.buf = <<>> THEN Declined(e)
    ELSE LET lt == e.last_transform
         IN  IF lt # None /\ lt[1].kind = "Mark" /\ lt[1].key = key
             THEN revert_mark(e, key, caps)
             ELSE IF ~is_valid(buf_keys(e.buf)) THEN Declined(e)
             ELSE LET vowels == collect_vowels(e.buf)
                  IN  IF vowels = <<>> THEN Declined(e)
                      ELSE LET last_vowel_pos == vowels[Len(vowels)].pos
                               has_final == has_final_consonant(e.buf, last_vowel_pos)
                               has_qu == has_qu_initial(e.buf)
                               pos == find_tone_position(vowels, has_final, TRUE, has_qu)
                           IN  IF pos < Len(e.buf)
                               THEN LET b1 == set_mark(e.buf, pos, mark_val)
                                        rb == rebuild_from(b1, pos)
                                    IN  Out([e EXCEPT !.buf = b1,
                                                      !.last_transform =
                                                          Some(Transform_Mark(key, mark_val))],
                                            Some(rb.r), "mark_apply", rb.panic)
                               ELSE Declined(e)

handle_remove(e) ==
    LET annotated == {p \in find_vowels(e.buf) :
                         At(e.buf, p).mark > mark_NONE \/ At(e.buf, p).tone > tone_NONE}
    IN  IF annotated = {} THEN Out(e, Some(Result_none), "remove", FALSE)
        ELSE LET pos == MaxOf(annotated)
                 b1 == IF At(e.buf, pos).mark > mark_NONE
                       THEN set_mark(e.buf, pos, mark_NONE)
                       ELSE set_tone(e.buf, pos, tone_NONE)
                 rb == rebuild_from(b1, pos)
             IN  Out([e EXCEPT !.buf = b1], Some(rb.r), "remove", rb.panic)

\* handle_normal_letter leaving last_transform as it was.
handle_normal_letter_keeps(e, key, caps) ==
    IF is_letter(key)
    THEN Out([e EXCEPT !.buf = buf_push(e.buf, Char_new(key, caps))],
             Some(Result_none), "normal", FALSE)
    ELSE Out([e EXCEPT !.buf = <<>>], Some(Result_none), "normal", FALSE)

\* handle_normal_letter pushing the key without asking whether it is a
\* letter.
handle_normal_letter_any(e, key, caps) ==
    LET e1 == [e EXCEPT !.last_transform = None]
    IN  Out([e1 EXCEPT !.buf = buf_push(e1.buf, Char_new(key, caps))],
            Some(Result_none), "normal", FALSE)

handle_normal_letter(e, key, caps) ==
    LET e1 == [e EXCEPT !.last_transform = None]
    IN  IF is_letter(key)
        THEN Out([e1 EXCEPT !.buf = buf_push(e1.buf, Char_new(key, caps))],
                 Some(Result_none), "normal", FALSE)
        ELSE Out([e1 EXCEPT !.buf = <<>>], Some(Result_none), "normal", FALSE)

try_word_boundary_shortcut(e) ==
    IF e.buf = <<>> THEN Result_none
    ELSE LET buffer_str == to_string_preserve_case(e.buf)
             m == try_match_for_method(e.shortcuts, buffer_str, e.method)
         IN  IF m # None THEN Result_send(m[1].backspace_count, m[1].output)
             ELSE Result_none

\* process, written inside out: each stage takes the Out of the step before
\* it and returns it when that step produced a Result, else runs the next.
process_normal(s5, key, caps) ==
    IF s5.r # None THEN s5 ELSE handle_normal_letter(s5.e, key, caps)

process_w(e, key, caps) ==
    process_normal(IF e.method = 0 /\ key = "w" THEN try_w_as_vowel(e, caps)
                   ELSE Declined(e),
                   key, caps)

\* process running handle_remove without clearing last_transform first.
process_remove_keeps(s3, key, caps) ==
    IF s3.r # None THEN s3
    ELSE IF m_remove(s3.e.method, key)
    THEN handle_remove(s3.e)
    ELSE process_w(s3.e, key, caps)

process_remove(s3, key, caps) ==
    IF s3.r # None THEN s3
    ELSE IF m_remove(s3.e.method, key)
    THEN handle_remove([s3.e EXCEPT !.last_transform = None])
    ELSE process_w(s3.e, key, caps)

process_mark(s2, key, caps) ==
    IF s2.r # None THEN s2
    ELSE process_remove(IF m_mark(s2.e.method, key) # None
                        THEN try_mark(s2.e, key, caps, m_mark(s2.e.method, key)[1])
                        ELSE Declined(s2.e),
                        key, caps)

process_tone(s1, key, caps) ==
    IF s1.r # None THEN s1
    ELSE process_mark(IF m_tone(s1.e.method, key) # None
                      THEN try_tone(s1.e, key, caps, m_tone(s1.e.method, key)[1],
                                    m_tone_targets(s1.e.method, key))
                      ELSE Declined(s1.e),
                      key, caps)

process(e, key, caps) ==
    process_tone(IF m_stroke(e.method, key) THEN try_stroke(e, key) ELSE Declined(e),
                 key, caps)

\* on_key testing ctrl only, not the enabled flag.
on_key_enabled_unchecked(e, key, caps, ctrl) ==
    IF ctrl
    THEN Out([e EXCEPT !.buf = <<>>, !.last_transform = None],
             Some(Result_none), "passthrough", FALSE)
    ELSE IF is_break(key)
    THEN Out([e EXCEPT !.buf = <<>>, !.last_transform = None],
             Some(try_word_boundary_shortcut(e)), "break", FALSE)
    ELSE IF key = DELETE
    THEN Out([e EXCEPT !.buf = buf_pop(e.buf), !.last_transform = None],
             Some(Result_none), "delete", FALSE)
    ELSE process(e, key, caps)

\* on_key clearing the buffer before it tries the shortcut.
on_key_clear_first(e, key, caps, ctrl) ==
    IF ~e.enabled \/ ctrl
    THEN Out([e EXCEPT !.buf = <<>>, !.last_transform = None],
             Some(Result_none), "passthrough", FALSE)
    ELSE IF is_break(key)
    THEN Out([e EXCEPT !.buf = <<>>, !.last_transform = None],
             Some(try_word_boundary_shortcut([e EXCEPT !.buf = <<>>])), "break", FALSE)
    ELSE IF key = DELETE
    THEN Out([e EXCEPT !.buf = buf_pop(e.buf), !.last_transform = None],
             Some(Result_none), "delete", FALSE)
    ELSE process(e, key, caps)

\* on_key popping the buffer on backspace without clearing last_transform.
on_key_delete_keeps(e, key, caps, ctrl) ==
    IF ~e.enabled \/ ctrl
    THEN Out([e EXCEPT !.buf = <<>>, !.last_transform = None],
             Some(Result_none), "passthrough", FALSE)
    ELSE IF is_break(key)
    THEN Out([e EXCEPT !.buf = <<>>, !.last_transform = None],
             Some(try_word_boundary_shortcut(e)), "break", FALSE)
    ELSE IF key = DELETE
    THEN Out([e EXCEPT !.buf = buf_pop(e.buf)], Some(Result_none), "delete", FALSE)
    ELSE process(e, key, caps)

on_key(e, key, caps, ctrl) ==
    IF ~e.enabled \/ ctrl
    THEN Out([e EXCEPT !.buf = <<>>, !.last_transform = None],
             Some(Result_none), "passthrough", FALSE)
    ELSE IF is_break(key)
    THEN Out([e EXCEPT !.buf = <<>>, !.last_transform = None],
             Some(try_word_boundary_shortcut(e)), "break", FALSE)
    ELSE IF key = DELETE
    THEN Out([e EXCEPT !.buf = buf_pop(e.buf), !.last_transform = None],
             Some(Result_none), "delete", FALSE)
    ELSE process(e, key, caps)

set_enabled(e, flag) ==
    IF ~flag THEN [e EXCEPT !.enabled = flag, !.buf = <<>>]
    ELSE [e EXCEPT !.enabled = flag]

set_method(e, m) == [e EXCEPT !.method = m]

\* clear emptying the buffer without forgetting the last transform.
clear_keeps_transform(e) == [e EXCEPT !.buf = <<>>]

clear(e) == [e EXCEPT !.buf = <<>>, !.last_transform = None]

(***************************************************************************)
(* The host's virtual screen (tests/common type_word): a Send deletes      *)
(* `backspace` trailing codepoints and inserts chars[0..count]; on None    *)
(* the host inserts the key itself when it is a letter; backspace deletes  *)
(* one codepoint; the space key inserts a space whatever the Result.  A    *)
(* key with ctrl held is a command and inserts nothing.                    *)
(***************************************************************************)
DropLast(s, n) == SubSeq(s, 1, IF Len(s) >= n THEN Len(s) - n ELSE 0)
BreakChar(key) == [ch |-> key, up |-> FALSE]

type_word_step(scr, key, caps, ctrl, r) ==
    IF ctrl THEN scr
    ELSE IF key = DELETE THEN DropLast(scr, 1)
    ELSE IF key = "SPACE" THEN Append(scr, BreakChar(key))
    ELSE IF r.action = Action_Send
    THEN DropLast(scr, r.backspace) \o SubSeq(r.chars, 1, r.count)
    ELSE IF is_letter(key) THEN scr \o key_to_char(key, caps)
    ELSE scr

(***************************************************************************)
(* projects/easy-ai-platform/personalization-engine: the lead score and    *)
(* the recommendations of a user, computed from ClickHouse, MySQL and      *)
(* Gorse and cached in Redis.  The service state s is a record: now (the   *)
(* clock, in seconds), clickhouse and customers (what the two stores hold  *)
(* for each user), lead_scores (the MySQL table), redis (key to entry),    *)
(* call and resp (the latest request and its answer).  Scores are kept in  *)
(* half points (twice the f64 of the code), so that the weights 0.5 and    *)
(* 1/60 per second stay whole numbers for the durations drawn.  Calls to   *)
(* the stores succeed; content_rules has no active rule.                   *)
(***************************************************************************)
Users == {"u1", "u2"}

\* What the Gorse server ranks for a user, best first.
GorseRanking(user_id) ==
    IF user_id = "u1" THEN <<"i1", "i2", "i3">> ELSE <<"i2", "i1">>

lead_score_key(user_id) == "lead_score:" \o user_id
recommendations_key(user_id) == "recs:" \o user_id

\* GET: the value of a key that is set and has not expired.
redis_get(redis, key, now) ==
    IF redis[key] # None /\ now < redis[key][1].expires
    THEN Some(redis[key][1].json) ELSE None

\* SETEX: the value under the key for ttl_seconds from now.
redis_set(redis, key, value, ttl_seconds, now) ==
    [redis EXCEPT ![key] = Some([json |-> value, expires |-> now + ttl_seconds])]

ScoringFactors_default ==
    [page_views_last_7d |-> 0, time_on_site_avg_seconds |-> 0, form_submissions |-> 0,
     pricing_page_visits |-> 0, demo_requests |-> 0, email_opens |-> 0,
     email_clicks |-> 0, return_visits |-> 0]

\* In half points: 0.5 a page view, 1 a minute on site, 5 a form, 3 a
\* pricing visit, 10 a demo request, 0.5 an open, 1 a click, 2 a return
\* visit, capped at 100.
ScoringFactors_calculate_score(f) ==
    Min2(f.page_views_last_7d + (f.time_on_site_avg_seconds \div 30)
            + f.form_submissions * 10 + f.pricing_page_visits * 6
            + f.demo_requests * 20 + f.email_opens + f.email_clicks * 2
            + f.return_visits * 4,
         200)

LeadSegment_from_score(score) ==
    IF score >= 160 THEN "SalesReady"
    ELSE IF score >= 100 THEN "Hot"
    ELSE IF score >= 40 THEN "Warm" ELSE "Cold"

LeadScore_new(user_id, factors, now) ==
    [id |-> 0, user_id |-> user_id,
     score |-> ScoringFactors_calculate_score(factors),
     segment |-> LeadSegment_from_score(ScoringFactors_calculate_score(factors)),
     factors |-> factors, calculated_at |-> now]

\* A field of the customer's JSON object, when it is there.
JsonField(data, name, default) == IF name \in DOMAIN data THEN data[name] ELSE default

build_factors(behavior, customer_data) ==
    LET f0 == ScoringFactors_default
        f1 == IF behavior = None THEN f0
              ELSE [f0 EXCEPT !.page_views_last_7d = behavior[1].page_views_7d,
                              !.time_on_site_avg_seconds = behavior[1].avg_session_duration,
                              !.pricing_page_visits = behavior[1].pricing_page_visits,
                              !.return_visits = behavior[1].return_visits]
    IN  IF customer_data = None THEN f1
        ELSE [f1 EXCEPT
                 !.form_submissions = JsonField(customer_data[1], "form_submissions", @),
                 !.demo_requests = JsonField(customer_data[1], "demo_requests", @),
                 !.email_opens = JsonField(customer_data[1], "email_opens", @),
                 !.email_clicks = JsonField(customer_data[1], "email_clicks", @)]

\* [s, score]: the service after the call and the LeadScore returned.
calculate_score(s, user_id) ==
    LET cache_key == lead_score_key(user_id)
        cached == redis_get(s.redis, cache_key, s.now)
    IN  IF cached # None THEN [s |-> s, score |-> cached[1]]
        ELSE LET factors == build_factors(s.clickhouse[user_id], s.customers[user_id])
                 score == LeadScore_new(user_id, factors, s.now)
             IN  [s |-> [s EXCEPT !.lead_scores[user_id] = Some(score),
                                  !.redis = redis_set(s.redis, cache_key, score, 300, s.now)],
                  score |-> score]

\* The n best items Gorse ranks for the user.
gorse_get_recommendations(user_id, n) ==
    SubSeq(GorseRanking(user_id), 1, Min2(n, Len(GorseRanking(user_id))))

\* [s, recs]: the service after the call and the list returned.
get_recommendations_cached(s, user_id, n) ==
    LET cache_key == recommendations_key(user_id)
        cached == redis_get(s.redis, cache_key, s.now)
    IN  IF cached # None THEN [s |-> s, recs |-> cached[1]]
        ELSE LET recs == gorse_get_recommendations(user_id, n)
             IN  [s |-> [s EXCEPT !.redis = redis_set(s.redis, cache_key, recs, 600, s.now)],
                  recs |-> recs]

\* [s, result]: the service after the call and the PersonalizationResult.
personalize(s, user_id, num_recommendations) ==
    LET ls == calculate_score(s, user_id)
        rc == get_recommendations_cached(ls.s, user_id, num_recommendations)
    IN  [s |-> rc.s,
         result |-> [user_id |-> user_id, lead_score |-> ls.score.score,
                     segment |-> ls.score.segment, recommendations |-> rc.recs,
                     content_actions |-> <<>>]]

NoCall == [op |-> "none", user_id |-> "", n |-> 0]
NoResp == [score |-> None, result |-> None]

\* No service process: the state of svc while the typing engine is the
\* program that runs.
NotStarted == <<>>

\* The service as create_router leaves it: empty stores and cache.
AppState_new ==
    [now |-> 0,
     clickhouse |-> [u \in Users |-> None],
     customers |-> [u \in Users |-> None],
     lead_scores |-> [u \in Users |-> None],
     redis |-> [k \in {lead_score_key(u) : u \in Users}
                         \cup {recommendations_key(u) : u \in Users} |-> None],
     call |-> NoCall,
     resp |-> NoResp]

(***************************************************************************)
(* The state machine.  Engine fields: buf, method, enabled,                *)
(* last_transform, shortcuts.  Host: screen.  Observation of the last      *)
(* operation: res (the Result returned), path (the branch of on_key that   *)
(* returned it, or the name of the setter), panicked.  History: pre (the   *)
(* part of screen that lies outside the buffer: what was on screen when    *)
(* the current word began), calls (the last on_key calls made back to      *)
(* back, with the state before each), applied (the application made by the *)
(* latest on_key, forgotten by clear()), fresh / freshRes (an engine       *)
(* constructed anew at the moment of re-enabling and fed the same keys),   *)
(* modern_tone (the tone-placement mode the host asked for through         *)
(* set_modern_tone; the Engine struct has no field for it), word (the      *)
(* input string of the test case being typed, empty when keys are drawn    *)
(* freely), args / ret (the arguments and the return value of the latest   *)
(* call of a function of data::chars made on its own, empty before).       *)
(* The personalization service, a program of its own in the repository,   *)
(* keeps its whole state in svc; it is not started while the engine runs. *)
(***************************************************************************)
VARIABLES buf, method, enabled, last_transform, shortcuts,
          screen, pre, res, path, panicked, calls, applied,
          fresh, freshRes, nops, modern_tone, word, args, ret, svc

vars == <<buf, method, enabled, last_transform, shortcuts,
          screen, pre, res, path, panicked, calls, applied,
          fresh, freshRes, nops, modern_tone, word, args, ret, svc>>

MaxOps == 4

Eng ==
    [buf |-> buf, method |-> method, enabled |-> enabled,
     last_transform |-> last_transform, shortcuts |-> shortcuts]

ApplyPaths == {"stroke_apply", "tone_apply", "mark_apply", "w_apply"}
RevertPaths == {"stroke_revert", "tone_revert", "mark_revert", "w_revert"}

Init ==
    /\ buf = Engine_new.buf
    /\ method = Engine_new.method
    /\ enabled = Engine_new.enabled
    /\ last_transform = Engine_new.last_transform
    /\ shortcuts = Engine_new.shortcuts
    /\ screen = <<>>
    /\ pre = <<>>
    /\ res = Result_none
    /\ path = "new"
    /\ panicked = FALSE
    /\ calls = <<>>
    /\ applied = None
    /\ fresh = None
    /\ freshRes = Result_none
    /\ nops = 0
    /\ modern_tone = TRUE
    /\ word = <<>>
    /\ args = <<>>
    /\ ret = <<>>
    /\ svc = NotStarted

LastTwo(s) == IF Len(s) > 2 THEN SubSeq(s, Len(s) - 1, Len(s)) ELSE s

\* The effect of one on_key call that returned o (f: the same call on the
\* engine constructed at re-enabling, when there is one).
OnKeyEffect(key, caps, ctrl, o, scr, f) ==
    /\ buf' = o.e.buf
    /\ last_transform' = o.e.last_transform
    /\ UNCHANGED <<method, enabled, shortcuts, modern_tone, word, args, ret, svc>>
    /\ screen' = scr
    /\ pre' = IF o.e.buf = <<>> THEN scr ELSE pre
    /\ res' = o.r[1]
    /\ path' = o.path
    /\ panicked' = o.panic
    /\ calls' = LastTwo(Append(calls,
                    [key |-> key, caps |-> caps, ctrl |-> ctrl, path |-> o.path,
                     before |-> [buf |-> buf, screen |-> screen, pre |-> pre,
                                 last_transform |-> last_transform,
                                 applied |-> applied]]))
    /\ applied' = IF o.path \in ApplyPaths
                  THEN Some([path |-> o.path, key |-> key]) ELSE None
    /\ fresh' = IF f = None THEN None ELSE Some(f[1].e)
    /\ freshRes' = IF f = None THEN freshRes ELSE f[1].r[1]
    /\ nops' = nops + 1

OnKeyHost(key, caps, ctrl, o) ==
    OnKeyEffect(key, caps, ctrl, o,
                type_word_step(screen, key, caps, ctrl, o.r[1]),
                IF fresh = None THEN None ELSE Some(on_key(fresh[1], key, caps, ctrl)))

\* One on_key call, and the host applying the Result to its screen.
OnKeyCall(key, caps, ctrl) ==
    OnKeyHost(key, caps, ctrl, on_key(Eng, key, caps, ctrl))

SetEnabled ==
    /\ ~panicked
    /\ nops < MaxOps
    /\ \E flag \in BOOLEAN :
          LET e == set_enabled(Eng, flag)
          IN  /\ buf' = e.buf
              /\ enabled' = e.enabled
              /\ last_transform' = e.last_transform
              /\ pre' = IF e.buf = <<>> THEN screen ELSE pre
              /\ fresh' = IF ~flag THEN None
                          ELSE IF ~enabled
                          THEN Some([Engine_new EXCEPT !.method = method,
                                                       !.shortcuts = shortcuts])
                          ELSE fresh
    /\ path' = "set_enabled"
    /\ calls' = <<>>
    /\ nops' = nops + 1
    /\ UNCHANGED <<method, shortcuts, screen, res, panicked, applied, freshRes,
                   modern_tone, word, args, ret, svc>>

SetMethod ==
    /\ ~panicked
    /\ nops < MaxOps
    /\ \E m \in {TELEX, VNI} :
          /\ method' = set_method(Eng, m).method
          /\ fresh' = IF fresh = None THEN None ELSE Some(set_method(fresh[1], m))
    /\ path' = "set_method"
    /\ calls' = <<>>
    /\ nops' = nops + 1
    /\ UNCHANGED <<buf, enabled, last_transform, shortcuts, screen, pre, res,
                   panicked, applied, freshRes, modern_tone, word, args, ret, svc>>

Clear ==
    /\ ~panicked
    /\ nops < MaxOps
    /\ buf' = clear(Eng).buf
    /\ last_transform' = clear(Eng).last_transform
    /\ pre' = screen
    /\ fresh' = IF fresh = None THEN None ELSE Some(clear(fresh[1]))
    /\ path' = "clear"
    /\ calls' = <<>>
    /\ applied' = None
    /\ nops' = nops + 1
    /\ UNCHANGED <<method, enabled, shortcuts, screen, res, panicked, freshRes,
                   modern_tone, word, args, ret, svc>>

(***************************************************************************)
(* Inputs.  Keys are drawn from the letters that exercise every step of    *)
(* the pipeline in each method, a word-break and backspace; caps and ctrl  *)
(* are drawn for a few keys.                                               *)
(***************************************************************************)
TelexLetters == {"a", "o", "u", "d", "w", "s", "f", "z", "n"}
VniLetters == {"a", "o", "u", "d", "n", "1", "2", "6", "7", "9", "0"}
LettersOf(m) == IF m = TELEX THEN TelexLetters ELSE VniLetters
CapsKeysOf(m) == IF m = TELEX THEN {"a", "w", "d", "s"} ELSE {"a", "d"}

OnKeyLetter ==
    /\ ~panicked
    /\ nops < MaxOps
    /\ \E key \in LettersOf(method) : OnKeyCall(key, FALSE, FALSE)

OnKeyCaps ==
    /\ ~panicked
    /\ nops < MaxOps
    /\ \E key \in CapsKeysOf(method) : OnKeyCall(key, TRUE, FALSE)

OnKeyEdit ==
    /\ ~panicked
    /\ nops < MaxOps
    /\ \E key \in {"SPACE", DELETE} : OnKeyCall(key, FALSE, FALSE)

OnKeyCtrl ==
    /\ ~panicked
    /\ nops < MaxOps
    /\ \E key \in {"a"} : OnKeyCall(key, FALSE, TRUE)

\* set_method called right after construction (tests/common run_vni).
SetMethodFirst ==
    /\ path = "new"
    /\ method' = set_method(Eng, VNI).method
    /\ path' = "set_method"
    /\ UNCHANGED <<buf, enabled, last_transform, shortcuts, screen, pre, res,
                   panicked, calls, applied, fresh, freshRes, nops, modern_tone,
                   word, args, ret, svc>>

\* The whole machine: every public operation, from a new engine.
Next ==
    \/ OnKeyLetter
    \/ OnKeyCaps
    \/ OnKeyEdit
    \/ OnKeyCtrl
    \/ SetEnabled
    \/ SetMethod
    \/ Clear

Spec == Init /\ [][Next]_vars

\* Typing letters only, in either method.
NextLetters ==
    \/ SetMethodFirst
    \/ OnKeyLetter
    \/ OnKeyCaps

SpecLetters == Init /\ [][NextLetters]_vars

(***************************************************************************)
(* Typing near capacity: the engine has been fed a word of MAX - 2 or      *)
(* MAX - 1 keys through on_key before the run starts.                      *)
(***************************************************************************)
Repeat(x, n) == [i \in 1..n |-> x]

RECURSIVE TypeKeys(_, _, _)
TypeKeys(e, scr, ks) ==
    IF ks = <<>> THEN [e |-> e, screen |-> scr]
    ELSE LET o == on_key(e, Head(ks), FALSE, FALSE)
         IN  TypeKeys(o.e, type_word_step(scr, Head(ks), FALSE, FALSE, o.r[1]), Tail(ks))

LongWords ==
    {<<>>,
     <<"d">> \o Repeat("n", MAX - 3),
     <<"a", "s">> \o Repeat("n", MAX - 2)}

InitTyped(t) ==
    /\ buf = t.e.buf
    /\ method = t.e.method
    /\ enabled = t.e.enabled
    /\ last_transform = t.e.last_transform
    /\ shortcuts = t.e.shortcuts
    /\ screen = t.screen
    /\ pre = <<>>
    /\ res = Result_none
    /\ path = "typed"
    /\ panicked = FALSE
    /\ calls = <<>>
    /\ applied = None
    /\ fresh = None
    /\ freshRes = Result_none
    /\ nops = 0
    /\ modern_tone = TRUE
    /\ word = <<>>
    /\ args = <<>>
    /\ ret = <<>>
    /\ svc = NotStarted

InitCap == \E w \in LongWords : InitTyped(TypeKeys(Engine_new, <<>>, w))

NextCap ==
    \/ OnKeyLetter
    \/ OnKeyCaps

SpecCap == InitCap /\ [][NextCap]_vars

(***************************************************************************)
(* Typing with a shortcut table the host has filled through               *)
(* shortcuts_mut(): one rule for every method, one for VNI only, one       *)
(* whose output is longer than a Result can carry.                         *)
(***************************************************************************)
Str(ks) == [i \in 1..Len(ks) |-> [ch |-> ks[i], up |-> FALSE]]

Rules ==
    {[trigger |-> Str(<<"n">>), output |-> Str(<<"o", "k">>), method |-> InputMethod_All],
     [trigger |-> Str(<<"a">>), output |-> Str(<<"u", "o">>), method |-> VNI],
     [trigger |-> Str(<<"d">>), output |-> Str(Repeat("x", MAX + 1)),
      method |-> InputMethod_All]}

shortcuts_mut_add(e, rule) == [e EXCEPT !.shortcuts = e.shortcuts \cup {rule}]

ShortcutsAdd ==
    /\ ~panicked
    /\ nops < MaxOps
    /\ \E rule \in Rules :
          /\ shortcuts' = shortcuts_mut_add(Eng, rule).shortcuts
          /\ fresh' = IF fresh = None THEN None
                      ELSE Some(shortcuts_mut_add(fresh[1], rule))
    /\ path' = "shortcuts_mut"
    /\ calls' = <<>>
    /\ nops' = nops + 1
    /\ UNCHANGED <<buf, method, enabled, last_transform, screen, pre, res,
                   panicked, applied, freshRes, modern_tone, word, args, ret, svc>>

NextShortcut ==
    \/ ShortcutsAdd
    \/ OnKeyLetter
    \/ OnKeyEdit
    \/ OnKeyCtrl

SpecShortcut == Init /\ [][NextShortcut]_vars

(***************************************************************************)
(* Typing words that begin with qu- and gi-, and open diphthongs.          *)
(***************************************************************************)
ClusterLetters == {"q", "g", "h", "u", "i", "o", "a", "s", "t"}

OnKeyCluster ==
    /\ ~panicked
    /\ nops < MaxOps
    /\ \E key \in ClusterLetters : OnKeyCall(key, FALSE, FALSE)

\* set_modern_tone called right after construction, as
\* test_oe_oa_tone_placement does.  Engine has no such method and no mode
\* field: nothing of the engine changes.
SetModernToneFirst ==
    /\ path = "new"
    /\ \E flag \in BOOLEAN : modern_tone' = flag
    /\ path' = "set_modern_tone"
    /\ UNCHANGED <<buf, method, enabled, last_transform, shortcuts, screen, pre,
                   res, panicked, calls, applied, fresh, freshRes, nops, word, args, ret, svc>>

NextCluster ==
    \/ SetModernToneFirst
    \/ OnKeyCluster
    \/ OnKeyEdit

SpecCluster == Init /\ [][NextCluster]_vars

(***************************************************************************)
(* Typing with keys that are not letters: a keycode the key table does not *)
(* know (char_to_key gives 255 for it) and a punctuation word-break.       *)
(***************************************************************************)
OtherKeys == {"K255", "DOT"}

OnKeyOther ==
    /\ ~panicked
    /\ nops < MaxOps
    /\ \E key \in OtherKeys : OnKeyCall(key, FALSE, FALSE)

NextKeys ==
    \/ SetMethodFirst
    \/ OnKeyLetter
    \/ OnKeyEdit
    \/ OnKeyOther

SpecKeys == Init /\ [][NextKeys]_vars

(***************************************************************************)
(* Typing the input strings of the test tables (tests/common run_telex,    *)
(* run_vni): a new engine, the method of the table, then the characters    *)
(* of the string one by one through char_to_key and on_key.  A character   *)
(* is a one-letter string; an upper-case letter is typed with caps.        *)
(***************************************************************************)
UpperChars ==
    <<"A", "B", "C", "D", "E", "F", "G", "H", "I", "J", "K", "L", "M",
      "N", "O", "P", "Q", "R", "S", "T", "U", "V", "W", "X", "Y", "Z">>
LowerChars ==
    <<"a", "b", "c", "d", "e", "f", "g", "h", "i", "j", "k", "l", "m",
      "n", "o", "p", "q", "r", "s", "t", "u", "v", "w", "x", "y", "z">>

is_uppercase(c) == \E i \in 1..Len(UpperChars) : UpperChars[i] = c

to_ascii_lowercase(c) ==
    IF is_uppercase(c)
    THEN LowerChars[CHOOSE i \in 1..Len(UpperChars) : UpperChars[i] = c]
    ELSE c

char_to_key(c) ==
    LET l == to_ascii_lowercase(c)
    IN  IF l \in AlphaKeys \cup DigitKeys THEN l
        ELSE IF l = "<" THEN DELETE
        ELSE IF l = " " THEN "SPACE"
        ELSE "K255"

\* type_word: the text on screen after the characters of input were typed
\* one by one into engine e, starting from the text scr.
RECURSIVE type_word(_, _, _)
type_word(e, scr, input) ==
    IF input = <<>> THEN scr
    ELSE LET c == Head(input)
             key == char_to_key(c)
             is_caps == is_uppercase(c) /\ key \notin {DELETE, "SPACE"}
             o == on_key(e, key, is_caps, FALSE)
         IN  type_word(o.e, type_word_step(scr, key, is_caps, FALSE, o.r[1]), Tail(input))

\* The strings typed: inputs of the test tables and of the examples, and
\* o s a s o, a tone key on a buffer that holds two marks.
TestWords ==
    {[method |-> TELEX, input |-> <<"d", "d", "u", "o", "w", "w", "c", "j">>],
     [method |-> TELEX, input |-> <<"v", "i", "e", "e", "t", "s">>],
     [method |-> TELEX, input |-> <<"v", "i", "E", "e", "t", "s">>],
     [method |-> TELEX, input |-> <<"V", "I", "E", "E", "T", "S">>],
     [method |-> TELEX, input |-> <<"D", "D", "U", "W", "O", "W", "N", "G", "F">>],
     [method |-> VNI, input |-> <<"V", "I", "E", "6", "5", "T">>],
     [method |-> VNI, input |-> <<"D", "9", "U", "7", "O", "7", "N", "G", "2">>],
     [method |-> TELEX, input |-> <<"c", "h", "a", "o", "f">>],
     [method |-> TELEX, input |-> <<"a", "s", "a">>],
     [method |-> TELEX, input |-> <<"b", "o", "s", "s", " ">>],
     [method |-> TELEX, input |-> <<"B", "O", "S", "S", " ">>],
     [method |-> TELEX, input |-> <<"b", "u", "f", "f", " ">>],
     [method |-> TELEX, input |-> <<"a", "s", "s", " ">>],
     [method |-> TELEX, input |-> <<"v", "a", "r", "r", " ">>],
     [method |-> TELEX, input |-> <<"t", "e", "s", "s", "t", " ">>],
     [method |-> TELEX, input |-> <<"w">>],
     [method |-> TELEX, input |-> <<"n", "h", "w">>],
     [method |-> TELEX, input |-> <<"k", "w">>],
     [method |-> TELEX, input |-> <<"h", "o", "a", "s", "<", "<">>],
     [method |-> TELEX, input |-> <<"a", "a", "s", "z", "z">>],
     [method |-> TELEX, input |-> <<"o", "s", "a", "s", "o">>]}

InitWords ==
    \E t \in TestWords :
        /\ buf = Engine_new.buf
        /\ method = set_method(Engine_new, t.method).method
        /\ enabled = Engine_new.enabled
        /\ last_transform = Engine_new.last_transform
        /\ shortcuts = Engine_new.shortcuts
        /\ screen = <<>>
        /\ pre = <<>>
        /\ res = Result_none
        /\ path = "new"
        /\ panicked = FALSE
        /\ calls = <<>>
        /\ applied = None
        /\ fresh = None
        /\ freshRes = Result_none
        /\ nops = 0
        /\ modern_tone = TRUE
        /\ word = t.input
        /\ args = <<>>
        /\ ret = <<>>
        /\ svc = NotStarted

\* type_word: the next character of the input string.
TypeWordChar ==
    /\ ~panicked
    /\ nops < Len(word)
    /\ LET c == word[nops + 1]
       IN  OnKeyCall(char_to_key(c), is_uppercase(c), FALSE)

NextWords == TypeWordChar

SpecWords == InitWords /\ [][NextWords]_vars

(***************************************************************************)
(* The character composer called on its own: to_char over a sample of      *)
(* keys, both cases, and tone and mark values in and out of range (u8).    *)
(***************************************************************************)
CharKeys == {"a", "e", "i", "o", "u", "y", "d", "n", "w", "1", "SPACE"}
ToneValues == {0, 1, 2, 3, 255}
MarkValues == {0, 1, 2, 3, 4, 5, 6, 255}

ToChar ==
    /\ \E key \in CharKeys, caps \in BOOLEAN, t \in ToneValues, m \in MarkValues :
          /\ args' = [key |-> key, caps |-> caps, tone |-> t, mark |-> m]
          /\ ret' = to_char(key, caps, t, m)
    /\ UNCHANGED <<buf, method, enabled, last_transform, shortcuts, screen, pre,
                   res, path, panicked, calls, applied, fresh, freshRes, nops,
                   modern_tone, word, svc>>

NextChars == ToChar

SpecChars == Init /\ [][NextChars]_vars

(***************************************************************************)
(* Properties.                                                             *)
(***************************************************************************)
\* The composed characters of the records of a buffer, in order.
Composed(b) == Flatten([i \in 1..Len(b) |-> compose_char(b[i])])

\* The letters of a buffer, without their annotations.
Letters(b) == [i \in 1..Len(b) |-> Char_new(b[i].key, b[i].caps)]

AfterOnKey == calls # <<>>
LastCall == calls[Len(calls)]
PrevCall == calls[1]
\* The last two operations were on_key calls, the second with the key of the
\* first, and the first took the branch p.
Repeated(p) ==
    /\ Len(calls) = 2
    /\ PrevCall.path = p
    /\ LastCall.key = PrevCall.key
Literal(c) == key_to_char(c.key, c.caps)

\* C1: after every on_key call the visible text equals the text on screen
\* before the current word began followed by the composed characters of the
\* buffer records.
C1_ScreenIsComposedBuffer ==
    AfterOnKey => screen = pre \o Composed(buf)

\* C2: every Send returned by on_key over letter keys has a backspace count
\* no greater than the number of codepoints displayed for the current word.
C2_BackspaceWithinWord ==
    (AfterOnKey /\ res.action = Action_Send)
        => res.backspace
              <= Len(LastCall.before.screen) - Len(LastCall.before.pre)

\* C3: tone revert law.  When a tone key was applied and the same key is
\* pressed again at once, the text is the text before the first press plus
\* the literal key, the buffer holds the original letters plus one
\* un-annotated record, and every vowel has the tone it had before the
\* first press.
C3_ToneRevertLaw ==
    (Repeated("tone_apply") /\ path = "tone_revert")
        => /\ screen = PrevCall.before.screen \o Literal(LastCall)
           /\ Letters(buf) = Letters(PrevCall.before.buf)
                                \o <<Char_new(LastCall.key, LastCall.caps)>>
           /\ buf[Len(buf)] = Char_new(LastCall.key, LastCall.caps)
           /\ \A i \in 1..Len(PrevCall.before.buf) :
                 buf[i].tone = PrevCall.before.buf[i].tone

\* C4: mark revert law.  When a mark key was applied and the same key is
\* pressed again at once, the text is the text before the first press
\* followed by the literal key, the buffer holds the original records plus
\* one un-annotated record, and no vowel carries a mark.
C4_MarkRevertLaw ==
    (Repeated("mark_apply") /\ path = "mark_revert")
        => /\ screen = PrevCall.before.screen \o Literal(LastCall)
           /\ Letters(buf) = Letters(PrevCall.before.buf)
                                \o <<Char_new(LastCall.key, LastCall.caps)>>
           /\ buf[Len(buf)] = Char_new(LastCall.key, LastCall.caps)
           /\ \A i \in 1..Len(buf) : buf[i].mark = mark_NONE

\* C5: Telex w revert.  When w was accepted as the vowel u-horn and w is
\* pressed again, the displayed u-horn is replaced by the literal ww (case
\* of the second key), last_transform is cleared, and the buffer holds
\* those literal letters, so that text and composed buffer agree.
C5_WRevertLiteral ==
    (Repeated("w_apply") /\ path = "w_revert")
        => /\ screen = PrevCall.before.screen
                          \o Literal(LastCall) \o Literal(LastCall)
           /\ last_transform = None
           /\ Composed(buf) = Composed(PrevCall.before.buf)
                                 \o Literal(LastCall) \o Literal(LastCall)
           /\ screen = pre \o Composed(buf)

\* C6: after set_enabled(false) then set_enabled(true), every on_key returns
\* the Result that an engine constructed anew at the moment of re-enabling
\* (same method, same shortcut table) returns for the same keys.
C6_ReenabledIsFresh ==
    (AfterOnKey /\ fresh # None) => res = freshRes

\* C7: over letter keys with any caps no on_key call panics and the buffer
\* never holds more than MAX records.
C7_NoPanicWithinMax ==
    /\ ~panicked
    /\ Len(buf) <= MAX

\* A key arrived at a full buffer and was handled without a panic.
C7_Witness ==
    /\ AfterOnKey
    /\ Len(LastCall.before.buf) = MAX
    /\ is_letter(LastCall.key)
    /\ ~panicked
    /\ Len(buf) = MAX

\* C8: after every on_key at most one record of the buffer carries a mark.
C8_AtMostOneMark ==
    AfterOnKey => Cardinality({i \in 1..Len(buf) : buf[i].mark # mark_NONE}) <= 1

\* C9: whenever on_key returns a Send for a stroke, tone, mark or w-as-vowel
\* application, the base letters of the buffer after the call are accepted
\* by the validator.
C9_AppliedIsValid ==
    (AfterOnKey /\ path \in ApplyPaths /\ res.action = Action_Send)
        => is_valid(buf_keys(buf))

\* C9 (amended): the same for tone, mark and w-as-vowel applications, and
\* for stroke applications on a buffer that holds a vowel.
C9_AppliedIsValidWithVowel ==
    (/\ AfterOnKey
     /\ path \in ApplyPaths
     /\ res.action = Action_Send
     /\ (path = "stroke_apply" => find_vowels(buf) # {}))
        => is_valid(buf_keys(buf))

\* A stroke applied to a word that holds a vowel and a final consonant.
C9_Witness ==
    /\ AfterOnKey
    /\ path = "stroke_apply"
    /\ res.action = Action_Send
    /\ find_vowels(buf) # {}
    /\ Len(buf) >= 3

\* C10: a revert is taken only when the on_key just before it was an
\* application by the same modifier key, with no keystroke and no clear()
\* in between.
C10_RevertOnlyAfterApply ==
    (AfterOnKey /\ path \in RevertPaths)
        => /\ LastCall.before.applied # None
           /\ LastCall.before.applied[1].key = LastCall.key
           /\ <<LastCall.before.applied[1].path, path>>
                 \in {<<"stroke_apply", "stroke_revert">>,
                      <<"tone_apply", "tone_revert">>,
                      <<"mark_apply", "mark_revert">>,
                      <<"w_apply", "w_revert">>}

\* A mark key that reverted, and the same key pressed once more: it does
\* not revert again.
C10_Witness ==
    /\ Len(calls) = 2
    /\ PrevCall.path \in RevertPaths
    /\ LastCall.key = PrevCall.key
    /\ path \notin RevertPaths

\* The variant of last_transform that each applying branch records.
KindOf(p) ==
    CASE p = "stroke_apply" -> "Stroke"
      [] p = "tone_apply" -> "Tone"
      [] p = "mark_apply" -> "Mark"
      [] p = "w_apply" -> "WAsVowel"
      [] OTHER -> "none"

\* C11: after every on_key, last_transform is set only if that very call
\* made a non-reverting application, and then its variant and key are those
\* of that application.
C11_LastTransformIsThisApply ==
    (AfterOnKey /\ last_transform # None)
        => /\ path \in ApplyPaths
           /\ res.action = Action_Send
           /\ last_transform[1].kind = KindOf(path)
           /\ last_transform[1].key = LastCall.key

\* A tone key applied over a word whose last_transform was a mark.
C11_Witness ==
    /\ AfterOnKey
    /\ path = "tone_apply"
    /\ last_transform # None
    /\ LastCall.before.last_transform # None
    /\ LastCall.before.last_transform[1].kind = "Mark"

\* C12: while the engine is disabled, and on any key with ctrl held, on_key
\* returns None with backspace 0 and count 0 and leaves the buffer empty
\* and last_transform None; no Send is returned while disabled.
C12_DisabledOrCtrlPassesThrough ==
    (AfterOnKey /\ (~enabled \/ LastCall.ctrl))
        => /\ res = Result_none
           /\ buf = <<>>
           /\ last_transform = None

\* A w pressed while disabled, with last_transform still set from before.
C12_Witness ==
    /\ AfterOnKey
    /\ ~enabled
    /\ LastCall.key = "w"
    /\ LastCall.before.last_transform # None

\* C13: a word-break key leaves the buffer empty and last_transform None
\* whether or not a shortcut matched; the Result is a Send with the
\* table's backspace count and output exactly when the buffer was not
\* empty and the table matched its case-preserved string for the current
\* method, and None otherwise.
C13_BreakClearsAndExpands ==
    (AfterOnKey /\ is_break(LastCall.key) /\ enabled /\ ~LastCall.ctrl)
        => /\ buf = <<>>
           /\ last_transform = None
           /\ LET b == LastCall.before.buf
                  m == try_match_for_method(shortcuts, to_string_preserve_case(b), method)
              IN  res = IF b # <<>> /\ m # None
                        THEN Result_send(m[1].backspace_count, m[1].output)
                        ELSE Result_none

\* A word-break after a word that a rule of the table expands.
C13_Witness ==
    /\ AfterOnKey
    /\ is_break(LastCall.key)
    /\ res.action = Action_Send
    /\ buf = <<>>
    /\ LastCall.before.buf # <<>>

FirstD(b) == MinOf({i \in 1..Len(b) : b[i].key = "d" /\ ~b[i].stroke})

\* C15: stroke revert.  When a stroke key has just stroked a D and the same
\* key is pressed again, last_transform is cleared, the stroke is undone
\* and a new D record of the same case is appended: the displayed d-stroke
\* becomes the literal dd / DD.
C15_StrokeRevertLaw ==
    (Repeated("stroke_apply") /\ ~LastCall.ctrl)
        => LET b0 == PrevCall.before.buf
               up == b0[FirstD(b0)].caps
           IN  /\ last_transform = None
               /\ buf = b0 \o <<Char_new("d", up)>>
               /\ screen = PrevCall.before.screen \o <<[ch |-> "d", up |-> up]>>

\* A stroke key met a buffer with an un-stroked D, and it is not the key
\* that stroked last.
StrokeStepRan ==
    /\ AfterOnKey
    /\ enabled
    /\ ~LastCall.ctrl
    /\ m_stroke(method, LastCall.key)
    /\ \E i \in 1..Len(LastCall.before.buf) :
          LastCall.before.buf[i].key = "d" /\ ~LastCall.before.buf[i].stroke
    /\ LastCall.before.last_transform # Some(Transform_Stroke(LastCall.key))

\* C16: a stroke key strokes the leftmost un-stroked D without asking the
\* validator when the buffer holds no vowel; when it holds a vowel it
\* strokes only if the validator accepts the base letters, and otherwise
\* declines: no record is stroked, and the key goes on as a normal key.
C16_StrokeValidatesOnlyWithVowel ==
    StrokeStepRan
        => LET b == LastCall.before.buf
           IN  IF find_vowels(b) = {} \/ is_valid(buf_keys(b))
               THEN /\ path = "stroke_apply"
                    /\ buf = set_stroke(b, FirstD(b) - 1, TRUE)
                    /\ last_transform = Some(Transform_Stroke(LastCall.key))
               ELSE /\ path = "normal"
                    /\ res = Result_none
                    /\ last_transform = None
                    /\ buf = IF is_letter(LastCall.key)
                             THEN buf_push(b, Char_new(LastCall.key, LastCall.caps))
                             ELSE <<>>

\* A stroke key declined on a word that holds a vowel and is not valid.
C16_Witness ==
    /\ StrokeStepRan
    /\ path = "normal"
    /\ find_vowels(LastCall.before.buf) # {}
    /\ ~is_valid(buf_keys(LastCall.before.buf))

\* C17: whenever on_key returns None for a letter key, enabled and without
\* ctrl, that key has been appended to the buffer as exactly one
\* un-annotated record when the buffer was below MAX.
C17_NoneMeansTracked ==
    (/\ AfterOnKey
     /\ enabled
     /\ ~LastCall.ctrl
     /\ is_letter(LastCall.key)
     /\ res.action = Action_None
     /\ Len(LastCall.before.buf) < MAX)
        => buf = LastCall.before.buf \o <<Char_new(LastCall.key, LastCall.caps)>>

\* C18: when the buffer already holds MAX records, a key that ends up as a
\* normal letter (a Telex w whose w-as-vowel attempt is rejected included)
\* returns None, the new record is dropped, and the MAX records with their
\* annotations stay as they were.
C18_FullBufferDropsNew ==
    (AfterOnKey /\ Len(LastCall.before.buf) = MAX /\ path = "normal")
        => /\ res = Result_none
           /\ buf = LastCall.before.buf

\* The buffer begins with qu- or gi- and a further vowel follows.
QuGiWord(b) ==
    /\ Len(b) >= 3
    /\ <<b[1].key, b[2].key>> \in {<<"q", "u">>, <<"g", "i">>}
    /\ is_vowel(b[3].key)

\* C19: in a buffer that begins with qu- or gi- followed by a further
\* vowel, a mark key never sets the mark on the u of qu or the i of gi; the
\* mark goes on a vowel of the rest of the cluster.
C19_NoMarkOnQuGi ==
    (AfterOnKey /\ path = "mark_apply" /\ QuGiWord(LastCall.before.buf))
        => /\ buf[2].mark = mark_NONE
           /\ \E i \in 3..Len(buf) :
                 is_vowel(buf[i].key) /\ buf[i].mark = last_transform[1].val

\* The two vowels (places from 1) of a buffer whose vowels are an open
\* diphthong oa / oe / uy without tone modifier or mark, not after q.
OpenPair(b) ==
    {pr \in (1..Len(b)) \X (1..Len(b)) :
        /\ pr[2] = pr[1] + 1
        /\ find_vowels(b) = {pr[1] - 1, pr[2] - 1}
        /\ <<b[pr[1]].key, b[pr[2]].key>> \in OpenDiphthongs
        /\ \A i \in {pr[1], pr[2]} : b[i].tone = tone_NONE /\ b[i].mark = mark_NONE
        /\ ~has_qu_initial(b)}

\* C20: the tone-placement mode set through set_modern_tone decides where
\* a mark goes on an open oa / oe / uy diphthong: modern on the second
\* vowel, traditional on the first; with a final consonant after it, the
\* second vowel in both modes.
C20_ModeDecidesOpenDiphthong ==
    (AfterOnKey /\ path = "mark_apply")
        => \A pr \in OpenPair(LastCall.before.buf) :
              LET final == has_final_consonant(LastCall.before.buf, pr[2] - 1)
                  target == IF final \/ modern_tone THEN pr[2] ELSE pr[1]
                  other == IF target = pr[1] THEN pr[2] ELSE pr[1]
              IN  /\ buf[target].mark # mark_NONE
                  /\ buf[other].mark = mark_NONE

\* The whole input string of a test case has been typed.
Typed(m, input) == method = m /\ word = input /\ nops = Len(word)

\* C21: in Telex, d d u o w w c j typed on a new engine leaves the text
\* d-stroke, u-horn, o-horn-dot-below, c.
C21_DduowwcjIsDuoc ==
    Typed(TELEX, <<"d", "d", "u", "o", "w", "w", "c", "j">>)
        => screen = Str(<<"dd", "uw", "owj", "c">>)

\* The text of lower-case letters ks followed by a space.
Spaced(ks) == Append(Str(ks), BreakChar("SPACE"))

\* C22: on a word-break in Telex, a word typed with a doubled mark key
\* whose result is not valid Vietnamese is displayed as the raw keys typed
\* (boss, buff), and the listed exceptions keep the reverted form (ass
\* gives as, varr gives var).
C22_AutoRestoreOnBreak ==
    /\ Typed(TELEX, <<"b", "o", "s", "s", " ">>) => screen = Spaced(<<"b", "o", "s", "s">>)
    /\ Typed(TELEX, <<"b", "u", "f", "f", " ">>) => screen = Spaced(<<"b", "u", "f", "f">>)
    /\ Typed(TELEX, <<"a", "s", "s", " ">>) => screen = Spaced(<<"a", "s">>)
    /\ Typed(TELEX, <<"v", "a", "r", "r", " ">>) => screen = Spaced(<<"v", "a", "r">>)

TransformPaths == ApplyPaths \cup RevertPaths \cup {"remove"}

\* After a transform every record that existed keeps its caps flag, a
\* record appended by a tone or mark revert has the caps of the key, and
\* each letter of a Send built from the records has the case of its record.
CapsKept ==
    (AfterOnKey /\ path \in TransformPaths)
        => LET b == LastCall.before.buf
           IN  /\ Len(buf) >= Len(b)
               /\ \A i \in 1..Len(b) : buf[i].caps = b[i].caps
               /\ (path \in {"tone_revert", "mark_revert"} /\ Len(buf) > Len(b))
                     => buf[Len(buf)].caps = LastCall.caps
               /\ (path # "w_revert" /\ res.action = Action_Send)
                     => \A j \in 1..res.count :
                           LET c == buf[Len(buf) - res.count + j]
                           IN  c.key \in AlphaKeys => res.chars[j].up = c.caps

\* The upper-case text of glyph names.
Upper(ks) == [i \in 1..Len(ks) |-> [ch |-> ks[i], up |-> TRUE]]

BaseOf(key, t) ==
    IF t = tone_CIRCUMFLEX /\ key \in {"a", "e", "o"} THEN key \o key
    ELSE IF t = tone_HORN /\ key \in {"a", "o", "u"} THEN key \o "w"
    ELSE key

MarkLetters == <<"s", "f", "r", "x", "j">>

\* C24: to_char gives, for a vowel key, the table entry of the base vowel
\* resolved from key and tone and of the mark, upper-case exactly when caps
\* is set; a tone that does not apply to the key gives the plain base
\* vowel; a mark out of range gives the unmarked base; the key D gives d / D
\* whatever tone and mark are; every other key gives nothing.
C24_ToCharTable ==
    args # <<>>
        => ret = IF args.key = "d" THEN Some([ch |-> "d", up |-> args.caps])
                 ELSE IF args.key \notin VowelKeys THEN None
                 ELSE LET base == BaseOf(args.key, args.tone)
                      IN  Some([ch |-> IF args.mark \in 1..5
                                       THEN base \o MarkLetters[args.mark] ELSE base,
                                up |-> args.caps])

\* Upper-case e with a horn, which does not apply to it, and a dot-below.
C24_Witness ==
    /\ args # <<>>
    /\ args.key = "e"
    /\ args.caps
    /\ args.tone = tone_HORN
    /\ args.mark = mark_NANG
    /\ ret = Some([ch |-> "ej", up |-> TRUE])

\* C25: every Result returned by on_key has action in {0, 1, 2} and count
\* at most MAX, every slot of chars from count on is 0; a Result with
\* action None has backspace 0 and count 0; a Send built from more than MAX
\* characters carries the first MAX of them.
C25_ResultWellFormed ==
    AfterOnKey
        => /\ res.action \in {Action_None, Action_Send, Action_Restore}
           /\ res.count <= MAX
           /\ Len(res.chars) = MAX
           /\ \A i \in 1..MAX : (i > res.count) = (res.chars[i] = NUL)
           /\ res.action = Action_None => (res.backspace = 0 /\ res.count = 0)
           /\ LET b == LastCall.before.buf
                  m == try_match_for_method(shortcuts, to_string_preserve_case(b), method)
              IN  (is_break(LastCall.key) /\ enabled /\ ~LastCall.ctrl
                      /\ b # <<>> /\ m # None)
                     => /\ res.count = Min2(Len(m[1].output), MAX)
                        /\ SubSeq(res.chars, 1, res.count)
                              = SubSeq(m[1].output, 1, res.count)

\* A word-break after a word whose rule expands to more than MAX characters.
C25_Witness ==
    /\ AfterOnKey
    /\ is_break(LastCall.key)
    /\ res.action = Action_Send
    /\ res.count = MAX
    /\ \E rule \in shortcuts : Len(rule.output) > MAX

\* C26: after every on_key the stroke bit is set only on buffer records
\* whose key is D.
C26_StrokeOnlyOnD ==
    AfterOnKey => \A i \in 1..Len(buf) : buf[i].stroke => buf[i].key = "d"

\* A stroke key pressed after a D and further letters: the D is stroked,
\* the letters after it are not.
C26_Witness ==
    /\ AfterOnKey
    /\ path = "stroke_apply"
    /\ Len(buf) >= 2
    /\ \E i \in 1..Len(buf) : buf[i].stroke
    /\ \E i \in 1..Len(buf) : buf[i].key # "d"

\* C27: after every on_key every buffer record's key is a letter key (a
\* letter or a digit): no word-break, backspace or unknown keycode is ever
\* stored.
C27_BufferHoldsLetters ==
    AfterOnKey => \A i \in 1..Len(buf) : is_letter(buf[i].key)

\* A keycode that is neither a letter nor a word-break nor backspace met a
\* word in the buffer.
C27_Witness ==
    /\ AfterOnKey
    /\ LastCall.key = "K255"
    /\ LastCall.before.buf # <<>>
    /\ path = "normal"

\* The places (from 1) of the vowels of a buffer that carry a mark, a tone.
MarkedVowels(b) == {i \in 1..Len(b) : is_vowel(b[i].key) /\ b[i].mark # mark_NONE}
TonedVowels(b) == {i \in 1..Len(b) : is_vowel(b[i].key) /\ b[i].tone # tone_NONE}

\* C28: a remove key clears exactly one annotation level: if any vowel of
\* the buffer carries a mark, that mark is cleared and all tone modifiers
\* are kept; only when no vowel carries a mark is a tone modifier cleared,
\* from the rightmost vowel that has one; the Send rebuilds from the
\* changed position, and last_transform is cleared in every case.
C28_RemoveOneLevel ==
    (AfterOnKey /\ path = "remove")
        => LET b == LastCall.before.buf
           IN  /\ last_transform = None
               /\ IF MarkedVowels(b) # {}
                  THEN \E p \in MarkedVowels(b) :
                          /\ buf = set_mark(b, p - 1, mark_NONE)
                          /\ res = rebuild_from(buf, p - 1).r
                  ELSE IF TonedVowels(b) # {}
                  THEN LET p == MaxOf(TonedVowels(b))
                       IN  /\ buf = set_tone(b, p - 1, tone_NONE)
                           /\ res = rebuild_from(buf, p - 1).r
                  ELSE buf = b /\ res = Result_none

\* The place (from 1) of the annotation a tone or mark revert clears: the
\* rightmost vowel of the buffer with a tone, with a mark.
RevertedPlace(p, b) ==
    IF p = "tone_revert" THEN MaxOf(TonedVowels(b)) ELSE MaxOf(MarkedVowels(b))

\* C29: the Send of a tone or mark revert has backspace equal to the
\* buffer length before the key is appended minus pos, and inserts the
\* composed characters of the buffer positions pos..end as they are after
\* the reverted annotation is cleared: annotations that were not reverted
\* stay displayed and the inserted text matches the buffer.
C29_RevertSendsComposed ==
    (AfterOnKey /\ path \in {"tone_revert", "mark_revert"} /\ res.action = Action_Send)
        => LET b == LastCall.before.buf
               p == RevertedPlace(path, b)
           IN  /\ res.backspace = Len(b) - (p - 1)
               /\ SubSeq(res.chars, 1, res.count) = Composed(SubSeq(buf, p, Len(buf)))

\* C30: in Telex, when w is accepted as the vowel u-horn, the Send appends
\* u-horn after the letters already displayed without deleting any of them;
\* w is accepted exactly when the buffer extended by u is valid, and is an
\* ordinary letter otherwise.
C30_WAppendsHorn ==
    (AfterOnKey /\ enabled /\ ~LastCall.ctrl /\ method = TELEX /\ LastCall.key = "w"
         /\ path \in {"w_apply", "normal"})
        => LET b == LastCall.before.buf
           IN  IF is_valid(buf_keys(b) \o <<"u">>)
               THEN /\ path = "w_apply"
                    /\ res.action = Action_Send
                    /\ res.backspace = 0
                    /\ screen = LastCall.before.screen
                                   \o <<[ch |-> "uw", up |-> LastCall.caps]>>
               ELSE /\ path = "normal"
                    /\ res = Result_none
                    /\ buf = b \o <<Char_new("w", LastCall.caps)>>

\* The place (from 1) of the vowel phonology selects for the mark in a
\* buffer, with the arguments the engine passes.
SelectedPlace(b) ==
    LET vowels == collect_vowels(b)
    IN  find_tone_position(vowels, has_final_consonant(b, vowels[Len(vowels)].pos),
                           TRUE, has_qu_initial(b)) + 1

\* The places (from 1) whose tone differs between two buffers of one length.
ToneChanged(b0, b1) == {i \in 1..Len(b0) : b0[i].tone # b1[i].tone}

\* The first place (from 1) a Send re-emits, in the buffer after the call.
RebuiltFrom(b, r) == Len(b) - r.backspace + 1

\* C31: after a tone application on a buffer that carries a mark, the mark
\* sits on the vowel phonology selects for the updated cluster and on no
\* other, with its value, and the Send rebuilds from a place no greater
\* than the old place of the mark, its new place and the earliest place
\* whose tone changed, with the composed characters from there to the end:
\* asa gives a-circumflex-acute, tuoiws gives t, u-horn, o-horn-acute, i.
C31_ToneRepositionsMark ==
    /\ (AfterOnKey /\ path = "tone_apply" /\ MarkedVowels(LastCall.before.buf) # {})
          => LET b == LastCall.before.buf
                 old == MinOf(MarkedVowels(b))
                 new == SelectedPlace(buf)
                 from == RebuiltFrom(buf, res)
             IN  /\ MarkedVowels(buf) = {new}
                 /\ buf[new].mark = b[old].mark
                 /\ from <= MinOf({old, new} \cup ToneChanged(b, buf))
                 /\ SubSeq(res.chars, 1, res.count) = Composed(SubSeq(buf, from, Len(buf)))
    /\ path = "new"
          => /\ type_word(Engine_new, <<>>, <<"a", "s", "a">>) = Str(<<"aas">>)
             /\ type_word(Engine_new, <<>>, <<"t", "u", "o", "i", "w", "s">>)
                   = Str(<<"t", "uw", "ows", "i">>)

\* The vowel places (from 1) of a buffer that count for the placement of
\* the mark: the u of an initial qu is left out.
ClusterPlaces(b) ==
    LET V == {i \in 1..Len(b) : is_vowel(b[i].key)}
    IN  IF has_qu_initial(b) /\ Cardinality(V) >= 2 /\ b[MinOf(V)].key = "u"
        THEN V \ {MinOf(V)} ELSE V

\* The places the rule of C32 allows for the mark: one place where the rule
\* decides, any vowel of the cluster where it is silent.
MarkPlaces(b) ==
    LET V == ClusterPlaces(b)
        T == {i \in V : b[i].tone # tone_NONE}
    IN  IF T # {} THEN {MaxOf(T)}
        ELSE IF Cardinality(V) = 1 THEN V
        ELSE IF Cardinality(V) = 3 THEN V \ {MinOf(V), MaxOf(V)}
        ELSE IF Cardinality(V) = 2 /\ \E i \in (MaxOf(V) + 1)..Len(b) : is_consonant(b[i].key)
        THEN {MaxOf(V)}
        ELSE V

\* C32: a mark key that applies sets the mark of exactly one vowel record
\* and changes nothing else in the buffer: the rightmost vowel carrying a
\* circumflex or horn if there is one, else the only vowel, else the middle
\* one of three, else the second of two when a final consonant follows.
\* last_transform becomes Mark(key, value) and the Send rebuilds from that
\* record to the end of the buffer.
C32_MarkOnSelectedVowel ==
    (AfterOnKey /\ path = "mark_apply")
       => LET b == LastCall.before.buf
              val == m_mark(method, LastCall.key)
          IN  /\ val # None
              /\ last_transform = Some(Transform_Mark(LastCall.key, val[1]))
              /\ \E p \in MarkPlaces(b) :
                    /\ buf = [b EXCEPT ![p].mark = val[1]]
                    /\ RebuiltFrom(buf, res) = p
                    /\ SubSeq(res.chars, 1, res.count) = Composed(SubSeq(buf, p, Len(buf)))

\* A mark key has put the mark on the first of two vowels, the one that
\* carries a horn or circumflex.
C32_Witness ==
    /\ AfterOnKey /\ path = "mark_apply"
    /\ Len(buf) = 2
    /\ MarkedVowels(buf) = {1}
    /\ TonedVowels(buf) = {1}
    /\ is_vowel(buf[2].key)

\* The places (from 1) of the vowels of an adjacent u-o or o-u pair.
PairVowels(b) ==
    {i \in 1..Len(b) :
        \E j \in {i - 1, i + 1} \cap (1..Len(b)) :
            {b[i].key, b[j].key} = {"u", "o"}}

\* The key of the last call is the method's Horn key.
HornKey == AfterOnKey /\ m_tone(method, LastCall.key) = Some("Horn")

\* C33: when a Horn key applies on a buffer with an adjacent u-o or o-u
\* pair of which some vowel has no tone, exactly the vowels of the pair
\* without tone receive Horn in that keystroke, no other record changes,
\* and the Send rebuilds from the earlier of them: duocw gives d, u-horn,
\* o-horn, c and nguoiw gives n, g, u-horn, o-horn, i.
C33_HornOnWholePair ==
    /\ LET b == LastCall.before.buf
           T == {i \in PairVowels(b) : b[i].tone = tone_NONE}
       IN  (HornKey /\ path = "tone_apply" /\ T # {})
              => /\ buf = [i \in 1..Len(b) |->
                              IF i \in T THEN [b[i] EXCEPT !.tone = tone_HORN] ELSE b[i]]
                 /\ RebuiltFrom(buf, res) = MinOf(T)
                 /\ SubSeq(res.chars, 1, res.count)
                       = Composed(SubSeq(buf, MinOf(T), Len(buf)))
    /\ path = "new"
          => /\ type_word(Engine_new, <<>>, <<"d", "u", "o", "c", "w">>)
                   = Str(<<"d", "uw", "ow", "c">>)
             /\ type_word(Engine_new, <<>>, <<"n", "g", "u", "o", "i", "w">>)
                   = Str(<<"n", "g", "uw", "ow", "i">>)

\* The places (from 1) whose mark differs between two buffers of one length.
MarkChanged(b0, b1) == {i \in 1..Len(b0) : b0[i].mark # b1[i].mark}

\* Between b0 and b1 no mark changed, or one mark moved from a vowel to an
\* unmarked one.
MarkKeptOrMoved(b0, b1) ==
    \/ MarkChanged(b0, b1) = {}
    \/ \E from, to \in 1..Len(b0) :
          /\ from # to
          /\ MarkChanged(b0, b1) = {from, to}
          /\ b0[to].mark = mark_NONE /\ b1[from].mark = mark_NONE
          /\ b1[to].mark = b0[from].mark

\* C33 (amended): when a Horn key applies on a buffer with an adjacent u-o
\* or o-u pair of which some vowel has no tone, and at most one mark,
\* exactly the vowels of the pair without tone receive Horn in that
\* keystroke and no key, case, tone or stroke of another record changes; a
\* mark the buffer carries stays or moves to another vowel, and the Send
\* rebuilds from the earliest record that changed.
C33_HornOnPairMarkMayMove ==
    LET b == LastCall.before.buf
        T == {i \in PairVowels(b) : b[i].tone = tone_NONE}
        moved == {i \in MarkChanged(b, buf) : buf[i].mark = mark_NONE}
    IN  (HornKey /\ path = "tone_apply" /\ T # {} /\ Cardinality(MarkedVowels(b)) <= 1)
           => /\ buf = [i \in 1..Len(b) |->
                           [b[i] EXCEPT !.tone = IF i \in T THEN tone_HORN ELSE @,
                                        !.mark = buf[i].mark]]
              /\ MarkKeptOrMoved(b, buf)
              /\ RebuiltFrom(buf, res) = MinOf(T \cup moved)
              /\ SubSeq(res.chars, 1, res.count)
                    = Composed(SubSeq(buf, MinOf(T \cup moved), Len(buf)))

\* A Horn key has just given Horn to both vowels of a pair, after at least
\* one more letter.
C33_Witness ==
    /\ HornKey /\ path = "tone_apply"
    /\ Len(buf) >= 3
    /\ \E i \in 1..(Len(buf) - 1) :
          /\ {buf[i].key, buf[i + 1].key} = {"u", "o"}
          /\ LastCall.before.buf[i].tone = tone_NONE /\ buf[i].tone = tone_HORN
          /\ LastCall.before.buf[i + 1].tone = tone_NONE /\ buf[i + 1].tone = tone_HORN

\* The engine as it was when the last on_key call began.
EngBefore ==
    [Eng EXCEPT !.buf = LastCall.before.buf,
                !.last_transform = LastCall.before.last_transform]

\* The last call was a tone key that the tone step took up outside its
\* revert branch and outside the u-o Horn case: the buffer was not empty
\* and valid, and no u or o of a u-o pair waited for a Horn.
ToneStepPlain ==
    /\ AfterOnKey /\ enabled /\ ~LastCall.ctrl
    /\ LastCall.path \in {"tone_apply", "normal", "mark_apply", "remove",
                          "w_apply", "w_revert", "declined"}
    /\ m_tone(method, LastCall.key) # None
    /\ LET b == LastCall.before.buf
           lt == LastCall.before.last_transform
       IN  /\ b # <<>>
           /\ ~(lt # None /\ lt[1].kind = "Tone" /\ lt[1].key = LastCall.key)
           /\ ~(/\ m_tone(method, LastCall.key) = Some("Horn")
                /\ has_uo_compound(b)
                /\ \E i \in 1..Len(b) : b[i].key \in {"u", "o"} /\ b[i].tone = tone_NONE)

\* The places (from 1) of the last call's buffer a tone key may reach: the
\* vowels of the key's target set that carry no tone.
Eligible ==
    {i \in 1..Len(LastCall.before.buf) :
        /\ LastCall.before.buf[i].key \in m_tone_targets(method, LastCall.key)
        /\ LastCall.before.buf[i].tone = tone_NONE}

ToneStep ==
    try_tone(EngBefore, LastCall.key, LastCall.caps,
             m_tone(method, LastCall.key)[1], m_tone_targets(method, LastCall.key))

\* C34: outside the u-o Horn case a tone key that applies changes exactly
\* one record, the rightmost vowel of the key's target set whose tone is
\* None, and only its tone; a vowel that carries a tone is not overwritten;
\* when there is no such vowel the tone step declines with the buffer and
\* last_transform unchanged.
C34_ToneOnOneRecord ==
    ToneStepPlain
       => LET b == LastCall.before.buf
              val == ToneType_value(m_tone(method, LastCall.key)[1])
          IN  /\ path = "tone_apply"
                    => /\ Eligible # {}
                       /\ buf = [b EXCEPT ![MaxOf(Eligible)].tone = val]
              /\ Eligible = {} => ToneStep = Declined(EngBefore)

\* C34 (amended): outside the u-o Horn case a tone key that applies sets
\* the tone of exactly one record, the rightmost vowel of the key's target
\* set whose tone is None; no key, case, tone or stroke of another record
\* changes and no toned vowel is overwritten; a mark the buffer carries
\* stays or moves to another vowel.  When there is no such vowel the tone
\* step declines with the buffer and last_transform unchanged.
C34_ToneOnOneRecordMarkMayMove ==
    (ToneStepPlain /\ Cardinality(MarkedVowels(LastCall.before.buf)) <= 1)
       => LET b == LastCall.before.buf
              val == ToneType_value(m_tone(method, LastCall.key)[1])
          IN  /\ path = "tone_apply"
                    => /\ Eligible # {}
                       /\ buf = [i \in 1..Len(b) |->
                                    [b[i] EXCEPT !.tone = IF i = MaxOf(Eligible) THEN val ELSE @,
                                                 !.mark = buf[i].mark]]
                       /\ MarkKeptOrMoved(b, buf)
              /\ Eligible = {} => /\ ToneStep = Declined(EngBefore)
                                  /\ path # "tone_apply"

\* A tone key has just declined on a buffer whose only vowel of the target
\* set already carries a tone, and went on as a normal letter.
C34_Witness ==
    /\ ToneStepPlain
    /\ Eligible = {}
    /\ \E i \in TonedVowels(LastCall.before.buf) :
          LastCall.before.buf[i].key \in m_tone_targets(method, LastCall.key)
    /\ path = "normal"
    /\ Len(buf) = Len(LastCall.before.buf) + 1

\* A step's outcome is a Send, or a decline that hands the engine on as it
\* received it.
DeclinesClean(o, e) == o.path = "declined" => o.e = e

\* C35: every pipeline step that declines (stroke, tone, mark, w-as-vowel)
\* leaves the buffer records and last_transform exactly as they were when
\* the step started, at every buffer length from 0 to MAX; the only record
\* w-as-vowel removes on rejection is the U record it pushed itself.
C35_DeclineLeavesEngine ==
    (AfterOnKey /\ enabled /\ ~LastCall.ctrl /\ ~is_break(LastCall.key)
        /\ LastCall.key # DELETE)
       => LET e == EngBefore
              key == LastCall.key
              caps == LastCall.caps
              tone == IF m_tone(method, key) # None
                      THEN try_tone(e, key, caps, m_tone(method, key)[1],
                                    m_tone_targets(method, key))
                      ELSE Declined(e)
          IN  /\ m_stroke(method, key) => DeclinesClean(try_stroke(e, key), e)
              /\ DeclinesClean(tone, e)
              /\ m_mark(method, key) # None
                    => DeclinesClean(try_mark(e, key, caps, m_mark(method, key)[1]), e)
              /\ (method = TELEX /\ key = "w" /\ tone.path = "declined")
                    => DeclinesClean(try_w_as_vowel(e, caps), e)

\* The places (from 1) of the D records of a buffer that are not stroked.
PlainDs(b) == {i \in 1..Len(b) : b[i].key = "d" /\ ~b[i].stroke}

\* C36: the stroke key acts on the leftmost un-stroked D wherever it is in
\* the buffer, also when other letters were typed after it: the key is
\* consumed (the buffer keeps its length, only that D's stroke bit changes)
\* and the Send deletes and re-emits the characters from that D to the end
\* of the buffer.  A stroke key that is no repeat of the stroking key
\* applies when the buffer holds such a D and no vowel, or the validator
\* accepts its letters.  d a d gives d-stroke, a; d i d n r h gives
\* d-stroke, i-hook, n, h.
C36_DelayedStroke ==
    /\ (AfterOnKey /\ path = "stroke_apply")
          => LET b == LastCall.before.buf
                 p == MinOf(PlainDs(b))
             IN  /\ PlainDs(b) # {}
                 /\ buf = [b EXCEPT ![p].stroke = TRUE]
                 /\ res.action = Action_Send
                 /\ res.backspace = Len(b) - p + 1
                 /\ SubSeq(res.chars, 1, res.count) = Composed(SubSeq(buf, p, Len(buf)))
    /\ (StrokeStepRan
          /\ (~(\E i \in 1..Len(LastCall.before.buf) : is_vowel(LastCall.before.buf[i].key))
                \/ is_valid(buf_keys(LastCall.before.buf))))
          => path = "stroke_apply"
    /\ path = "new"
          => /\ type_word(Engine_new, <<>>, <<"d", "a", "d">>) = Str(<<"dd", "a">>)
             /\ type_word(Engine_new, <<>>, <<"d", "i", "d", "n", "r", "h">>)
                   = Str(<<"dd", "ir", "n", "h">>)

\* A stroke key has just stroked a D that is not the last record of the
\* buffer.
C36_Witness ==
    /\ AfterOnKey /\ path = "stroke_apply"
    /\ \E p \in 1..(Len(buf) - 1) :
          /\ buf[p].stroke /\ ~LastCall.before.buf[p].stroke
          /\ is_vowel(buf[p + 1].key)

\* C37: in Telex a mark key pressed right after a different mark key that
\* applied replaces the mark, and the first mark key comes back as a
\* literal letter after the marked vowel: a s f displays a-grave, s.
C37_MarkChangeKeepsFirstKey ==
    /\ (/\ method = TELEX
        /\ Len(calls) = 2
        /\ PrevCall.path = "mark_apply"
        /\ m_mark(TELEX, LastCall.key) # None
        /\ LastCall.key # PrevCall.key
        /\ Cardinality(MarkedVowels(LastCall.before.buf)) = 1)
          => LET b == LastCall.before.buf
                 p == MinOf(MarkedVowels(b))
                 b1 == [b EXCEPT ![p].mark = m_mark(TELEX, LastCall.key)[1]]
             IN  screen = LastCall.before.pre
                             \o Composed(SubSeq(b1, 1, p))
                             \o <<[ch |-> PrevCall.key, up |-> PrevCall.caps]>>
                             \o Composed(SubSeq(b1, p + 1, Len(b1)))
    /\ path = "new"
          => type_word(Engine_new, <<>>, <<"a", "s", "f">>) = Str(<<"af", "s">>)

\* The Results on_key returns for a sequence of keys, in order.
RECURSIVE ResultsOf(_, _)
ResultsOf(e, ks) ==
    IF ks = <<>> THEN <<>>
    ELSE LET o == on_key(e, Head(ks), FALSE, FALSE)
         IN  <<o.r>> \o ResultsOf(o.e, Tail(ks))

\* The keys typed after clear(): one key that reaches each step of the
\* pipeline in either method, a word break or backspace, and the pairs
\* that make a transform and its repeat.
AfterClearKeys == {"a", "d", "w", "s", "6", "SPACE", DELETE}
AfterClearSeqs ==
    {<<k>> : k \in AfterClearKeys}
        \cup {<<"a", "a">>, <<"a", "w">>, <<"a", "s">>, <<"d", "d">>}

\* An engine constructed anew and given the method, the enabled flag and
\* the shortcut table of the running one.
FreshLike ==
    [set_enabled(set_method(Engine_new, method), enabled) EXCEPT !.shortcuts = shortcuts]

\* C38: after clear(), from whatever state it was called in, the buffer is
\* empty and last_transform is None, and every key sequence typed next
\* gets the Results a new engine with the same method, enabled flag and
\* shortcut table returns for it.
C38_ClearIsFresh ==
    path = "clear"
       => /\ buf = <<>>
          /\ last_transform = None
          /\ \A ks \in AfterClearSeqs : ResultsOf(Eng, ks) = ResultsOf(FreshLike, ks)

\* clear() has just been called on an engine whose last key had put a mark
\* on a vowel: the marked glyph is still on the screen.
C38_Witness ==
    /\ path = "clear"
    /\ enabled
    /\ screen # <<>>
    /\ screen[Len(screen)].ch \in {"as", "af"}

(***************************************************************************)
(* The personalization service: requests to its two routes that compute,  *)
(* the stores changing under it, and time passing.                         *)
(***************************************************************************)
engine_vars ==
    <<buf, method, enabled, last_transform, shortcuts, screen, pre, res, path,
      panicked, calls, applied, fresh, freshRes, modern_tone, word, args, ret>>

\* Rows of the last seven days as get_user_behavior_stats aggregates them.
BehaviorSamples ==
    {[page_views_7d |-> 4, avg_session_duration |-> 60, pricing_page_visits |-> 0,
      return_visits |-> 0],
     [page_views_7d |-> 20, avg_session_duration |-> 300, pricing_page_visits |-> 5,
      return_visits |-> 3]}

\* The data column of the customers table.
CustomerSamples ==
    {[form_submissions |-> 1],
     [form_submissions |-> 2, demo_requests |-> 5, email_opens |-> 4, email_clicks |-> 1]}

NumRecommendations == {1, 2}
TickSeconds == {200, 400}

\* POST /api/v1/lead-score/:user_id
CalculateLeadScore ==
    /\ nops < MaxOps
    /\ \E user_id \in Users :
          LET o == calculate_score(svc, user_id)
          IN  svc' = [o.s EXCEPT !.call = [op |-> "calculate_lead_score",
                                           user_id |-> user_id, n |-> 0],
                                 !.resp = [score |-> Some(o.score), result |-> None]]
    /\ nops' = nops + 1
    /\ UNCHANGED engine_vars

\* GET /api/v1/personalize/:user_id?n=
GetPersonalization ==
    /\ nops < MaxOps
    /\ \E user_id \in Users, n \in NumRecommendations :
          LET o == personalize(svc, user_id, n)
          IN  svc' = [o.s EXCEPT !.call = [op |-> "get_personalization",
                                           user_id |-> user_id, n |-> n],
                                 !.resp = [score |-> None, result |-> Some(o.result)]]
    /\ nops' = nops + 1
    /\ UNCHANGED engine_vars

\* The analytics pipeline writes events of a user into ClickHouse.
EventsArrive ==
    /\ nops < MaxOps
    /\ \E user_id \in Users, b \in BehaviorSamples :
          /\ svc.clickhouse[user_id] # Some(b)
          /\ svc' = [svc EXCEPT !.clickhouse[user_id] = Some(b), !.call = NoCall,
                                !.resp = NoResp]
    /\ nops' = nops + 1
    /\ UNCHANGED engine_vars

\* The CDP writes the customer record of a user into MySQL.
CustomerUpdated ==
    /\ nops < MaxOps
    /\ \E user_id \in Users, d \in CustomerSamples :
          /\ svc.customers[user_id] # Some(d)
          /\ svc' = [svc EXCEPT !.customers[user_id] = Some(d), !.call = NoCall,
                                !.resp = NoResp]
    /\ nops' = nops + 1
    /\ UNCHANGED engine_vars

\* Time passes between two requests.
Tick ==
    /\ nops < MaxOps
    /\ \E d \in TickSeconds :
          svc' = [svc EXCEPT !.now = @ + d, !.call = NoCall, !.resp = NoResp]
    /\ nops' = nops + 1
    /\ UNCHANGED engine_vars

NextService ==
    \/ CalculateLeadScore
    \/ GetPersonalization
    \/ EventsArrive
    \/ CustomerUpdated
    \/ Tick

\* The service started by main, next to an engine nobody types into.
InitService ==
    /\ buf = Engine_new.buf
    /\ method = Engine_new.method
    /\ enabled = Engine_new.enabled
    /\ last_transform = Engine_new.last_transform
    /\ shortcuts = Engine_new.shortcuts
    /\ screen = <<>>
    /\ pre = <<>>
    /\ res = Result_none
    /\ path = "new"
    /\ panicked = FALSE
    /\ calls = <<>>
    /\ applied = None
    /\ fresh = None
    /\ freshRes = Result_none
    /\ nops = 0
    /\ modern_tone = TRUE
    /\ word = <<>>
    /\ args = <<>>
    /\ ret = <<>>
    /\ svc = AppState_new

SpecService == InitService /\ [][NextService]_vars

\* C39: POST /api/v1/lead-score/:user_id recalculates on every call: the
\* score it returns is the one computed at the time of the call from what
\* ClickHouse and MySQL hold for the user, and it is the one stored in the
\* lead_scores table, also when a score of the user was computed less than
\* five minutes before.
C39_PostRecalculates ==
    svc.call.op = "calculate_lead_score"
       => LET u == svc.call.user_id
              score == LeadScore_new(u, build_factors(svc.clickhouse[u], svc.customers[u]),
                                     svc.now)
          IN  /\ svc.resp.score = Some(score)
              /\ svc.lead_scores[u] = Some(score)

\* C40: a personalize call that asks for n recommendations is answered
\* with the recommendations Gorse gives for that n, whatever list an
\* earlier call for the same user stored in the cache.
C40_RecommendationsForN ==
    svc.call.op = "get_personalization"
       => svc.resp.result[1].recommendations
             = gorse_get_recommendations(svc.call.user_id, svc.call.n)

====
